---- MODULE Spec2Model ----
(***************************************************************************)
(* Model of bot.py (TM-Health Professional): the keyword risk classifier   *)
(* ProfessionalMentalHealthCoach.assess_risk, the response composer        *)
(* (generate_professional_response and the fallback templates) and the     *)
(* message handler ProfessionalTeenSupportBot.handle_message with its      *)
(* database side effects.                                                  *)
(*                                                                         *)
(* Texts are TLA+ strings; `in` of Python is substring containment and     *)
(* str.lower() / str.strip() are computed character by character.          *)
(***************************************************************************)
EXTENDS Integers, Sequences, FiniteSets, TLC

VARIABLES
    text,       \* ClassifySpec: the message being classified
    ra,         \* ClassifySpec: the risk_assessment dict as assess_risk builds it
    pc,         \* ClassifySpec: position inside assess_risk
    enabled,    \* ProfessionalMentalHealthCoach.enabled
    teens,      \* table teen_users: telegram_id -> row
    sessions,   \* table therapeutic_sessions (append order)
    alerts,     \* table crisis_alerts (append order)
    last,       \* what the last handled message did
    handled,    \* number of messages handled so far
    call,       \* ComposeSpec: the arguments of the composer's call
    conv,       \* ScreenSpec: user -> ConversationState
    inflight    \* SerialSpec: the handle_message coroutines that have not returned

vars ==
    <<text, ra, pc, enabled, teens, sessions, alerts, last, handled, call, conv,
      inflight>>

(***************************************************************************)
(* Bounds of the model.                                                    *)
(***************************************************************************)
\* number of fragments a generated text is made of
MaxFrags == 2
\* number of messages handled in one behaviour
MaxMsgs == 2
\* messages handled in a run that also starts screenings
MaxControlMsgs == 1
\* messages dispatched in a run that follows each handler step by step
MaxSerialMsgs == 3
\* rounds of the keep-alive loop that are followed
MaxKeepAlive == 2

(***************************************************************************)
(* Python values.                                                          *)
(***************************************************************************)
None == "<None>"

\* RiskLevel
LOW == "low"
MODERATE == "moderate"
HIGH == "high"
IMMINENT == "imminent"
RiskLevel == {LOW, MODERATE, HIGH, IMMINENT}

\* CrisisType (the members assess_risk assigns)
SUICIDE_IDEATION == "suicide_ideation"
SUICIDE_PLAN == "suicide_plan"
SELF_HARM == "self_harm"

(***************************************************************************)
(* Strings.                                                                *)
(***************************************************************************)
Upper == <<"A","B","C","D","E","F","G","H","I","J","K","L","M",
           "N","O","P","Q","R","S","T","U","V","W","X","Y","Z">>
Lowers == <<"a","b","c","d","e","f","g","h","i","j","k","l","m",
            "n","o","p","q","r","s","t","u","v","w","x","y","z">>

\* str.lower() of one character
LowerChar(c) ==
    IF \E i \in DOMAIN Upper : Upper[i] = c
    THEN Lowers[CHOOSE i \in DOMAIN Upper : Upper[i] = c]
    ELSE c

RECURSIVE Lower(_)
\* str.lower()
Lower(s) ==
    IF Len(s) = 0 THEN ""
    ELSE LowerChar(SubSeq(s, 1, 1)) \o Lower(SubSeq(s, 2, Len(s)))

\* Python's `p in s` for strings: p occurs as a substring of s
In(p, s) ==
    \E i \in 1..(Len(s) - Len(p) + 1) : SubSeq(s, i, i + Len(p) - 1) = p

\* any(phrase in s for phrase in phrases)
AnyIn(phrases, s) == \E i \in DOMAIN phrases : In(phrases[i], s)

\* [phrase for phrase in phrases if phrase in s]
Matching(phrases, s) ==
    LET Test(p) == In(p, s) IN SelectSeq(phrases, Test)

IsSpace(c) == c \in {" ", "\t", "\n"}

RECURSIVE LStrip(_)
LStrip(s) ==
    IF Len(s) > 0 /\ IsSpace(SubSeq(s, 1, 1)) THEN LStrip(SubSeq(s, 2, Len(s)))
    ELSE s

RECURSIVE RStrip(_)
RStrip(s) ==
    IF Len(s) > 0 /\ IsSpace(SubSeq(s, Len(s), Len(s)))
    THEN RStrip(SubSeq(s, 1, Len(s) - 1))
    ELSE s

\* str.strip()
Strip(s) == RStrip(LStrip(s))

(***************************************************************************)
(* assess_risk: the lexicons and the rules, in the order of the code.      *)
(***************************************************************************)
imminent_keywords ==
    <<"tonight", "today", "now", "soon", "plan", "method", "pills", "rope", "bridge">>
imminent_crisis_phrases == <<"kill myself", "suicide", "end it", "die">>
high_risk_phrases ==
    <<"kill myself", "suicide", "want to die", "better off dead", "can't go on">>
self_harm_phrases == <<"cut myself", "hurt myself", "self harm", "cutting", "burning">>
protective_phrases == <<"family", "friends", "pet", "future", "goals", "hope", "help">>
risk_phrases == <<"alone", "hopeless", "worthless", "failure", "burden", "trapped">>

\* initial_assessment with the default that .get('crisis_type', ...) uses elsewhere
initial_assessment_general_distress ==
    [level |-> LOW,
     crisis_type |-> "general_distress",
     risk_factors |-> <<>>,
     protective_factors |-> <<>>,
     immediate_action_required |-> FALSE]

\* the dict assess_risk starts from
initial_assessment ==
    [level |-> LOW,
     crisis_type |-> None,
     risk_factors |-> <<>>,
     protective_factors |-> <<>>,
     immediate_action_required |-> FALSE]

\* imminent_rule with the inner test dropped: a keyword alone is enough
imminent_rule_keyword_only(a, message_lower) ==
    IF AnyIn(imminent_keywords, message_lower)
    THEN [a EXCEPT !.level = IMMINENT,
                   !.crisis_type = SUICIDE_PLAN,
                   !.immediate_action_required = TRUE]
    ELSE a

\* "Check for imminent risk indicators": the nested loops assign the same three
\* values whenever a keyword and a crisis phrase are both found
imminent_rule(a, message_lower) ==
    IF \E i \in DOMAIN imminent_keywords :
          /\ In(imminent_keywords[i], message_lower)
          /\ \E j \in DOMAIN imminent_crisis_phrases :
                In(imminent_crisis_phrases[j], message_lower)
    THEN [a EXCEPT !.level = IMMINENT,
                   !.crisis_type = SUICIDE_PLAN,
                   !.immediate_action_required = TRUE]
    ELSE a

\* high_rule without the test that the level is not IMMINENT already
high_rule_unguarded(a, message_lower) ==
    IF AnyIn(high_risk_phrases, message_lower)
    THEN [a EXCEPT !.level = HIGH, !.crisis_type = SUICIDE_IDEATION]
    ELSE a

\* "High risk assessment"
\* high_rule that leaves a text with a self-harm phrase to the self-harm rule
high_rule_unless_self_harm(a, message_lower) ==
    IF /\ a.level # IMMINENT
       /\ AnyIn(high_risk_phrases, message_lower)
       /\ ~AnyIn(self_harm_phrases, message_lower)
    THEN [a EXCEPT !.level = HIGH, !.crisis_type = SUICIDE_IDEATION]
    ELSE a

high_rule(a, message_lower) ==
    IF a.level # IMMINENT /\ AnyIn(high_risk_phrases, message_lower)
    THEN [a EXCEPT !.level = HIGH, !.crisis_type = SUICIDE_IDEATION]
    ELSE a

\* self_harm_rule without the test of the current level
self_harm_rule_unguarded(a, message_lower) ==
    IF AnyIn(self_harm_phrases, message_lower)
    THEN [a EXCEPT !.level = MODERATE, !.crisis_type = SELF_HARM]
    ELSE a

\* self_harm_rule that records the crisis type and leaves the level alone
self_harm_rule_type_only(a, message_lower) ==
    IF AnyIn(self_harm_phrases, message_lower)
    THEN [a EXCEPT !.crisis_type = SELF_HARM]
    ELSE a

\* "Self-harm assessment": the level is raised only from LOW, the crisis type is
\* assigned on every match
self_harm_rule(a, message_lower) ==
    IF AnyIn(self_harm_phrases, message_lower)
    THEN [a EXCEPT !.level = IF a.level \in {LOW} THEN MODERATE ELSE a.level,
                   !.crisis_type = SELF_HARM]
    ELSE a

\* factor_scan that also raises a LOW level when a risk factor is found
factor_scan_raising(a, message_lower) ==
    [a EXCEPT !.protective_factors = Matching(protective_phrases, message_lower),
              !.risk_factors = Matching(risk_phrases, message_lower),
              !.level = IF AnyIn(risk_phrases, message_lower) /\ a.level = LOW
                        THEN MODERATE ELSE a.level]

\* "Assess protective factors" / "Risk factors"
factor_scan(a, message_lower) ==
    [a EXCEPT !.protective_factors = Matching(protective_phrases, message_lower),
              !.risk_factors = Matching(risk_phrases, message_lower)]

assess_risk(message) ==
    LET message_lower == Lower(message) IN
    factor_scan(
        self_harm_rule(
            high_rule(
                imminent_rule(initial_assessment, message_lower),
                message_lower),
            message_lower),
        message_lower)

(***************************************************************************)
(* The texts the classifier is run on: every concatenation of at most      *)
(* MaxFrags fragments, and the example sentences of the specification.     *)
(***************************************************************************)
Fragments ==
    {" ", "I want to ", "kill myself", "KILL MYSELF", " tonight", "I have the pills",
     "end it", "diet", "I know", "want to die", "can't go on", "suicide plan",
     "I cut myself", "Cutting", "so alone", "hopeless", "my family", "anxious"}

RECURSIVE Concat(_)
Concat(fs) == IF Len(fs) = 0 THEN "" ELSE Head(fs) \o Concat(Tail(fs))

Examples ==
    {"I want to kill myself tonight, I have the pills",
     "I want to kill myself",
     "I cut myself sometimes",
     "I'm stressed about exams",
     "I want to kill myself, I cut myself",
     "I feel overwhelmed by school",
     "I feel sad and overwhelmed",
     "   "}

Texts ==
    {Concat(fs) : fs \in UNION {[1..n -> Fragments] : n \in 0..MaxFrags}} \cup Examples

\* the modes of a ConversationState, and the state of a user who has none
NORMAL == "NORMAL"
SCREENING_PHQ9 == "SCREENING_PHQ9"
SCREENING_GAD7 == "SCREENING_GAD7"

EmptyState == [mode |-> NORMAL, step |-> 0, responses |-> <<>>]

Users == {1, 2}

NoConversations == [u \in Users |-> EmptyState]

\* no call of the composer is being followed
NoCall == [name |-> "", ai |-> [raises |-> TRUE, text |-> None]]

(***************************************************************************)
(* ClassifySpec: assess_risk run on one text, one rule at a time, so that  *)
(* the value of the dict between two rules is a state.                     *)
(***************************************************************************)
\* the value of `last` before any event is handled
NoMessage ==
    [event |-> "none", user |-> 0, text |-> "", classified |-> FALSE,
     risk_assessment |-> initial_assessment, response |-> None,
     ai_invoked |-> FALSE, faults |-> {}, sent |-> <<>>, raised |-> FALSE]

ClassifyInit ==
    /\ text \in Texts
    /\ ra = initial_assessment
    /\ pc = "imminent"
    /\ enabled = FALSE
    /\ teens = <<>>
    /\ sessions = <<>>
    /\ alerts = <<>>
    /\ last = NoMessage
    /\ handled = 0
    /\ call = NoCall
    /\ inflight = {}
    /\ conv = NoConversations

ImminentRule ==
    /\ pc = "imminent"
    /\ ra' = imminent_rule(ra, Lower(text))
    /\ pc' = "high"
    /\ UNCHANGED <<text, enabled, teens, sessions, alerts, last, handled, call, conv,
                   inflight>>

HighRule ==
    /\ pc = "high"
    /\ ra' = high_rule(ra, Lower(text))
    /\ pc' = "self_harm"
    /\ UNCHANGED <<text, enabled, teens, sessions, alerts, last, handled, call, conv,
                   inflight>>

SelfHarmRule ==
    /\ pc = "self_harm"
    /\ ra' = self_harm_rule(ra, Lower(text))
    /\ pc' = "factors"
    /\ UNCHANGED <<text, enabled, teens, sessions, alerts, last, handled, call, conv,
                   inflight>>

FactorScan ==
    /\ pc = "factors"
    /\ ra' = factor_scan(ra, Lower(text))
    /\ pc' = "return"
    /\ UNCHANGED <<text, enabled, teens, sessions, alerts, last, handled, call, conv,
                   inflight>>

ClassifyNext == ImminentRule \/ HighRule \/ SelfHarmRule \/ FactorScan

ClassifySpec == ClassifyInit /\ [][ClassifyNext]_vars

\* the stepwise run returns what assess_risk returns
ClassifyAgrees == pc = "return" => ra = assess_risk(text)

(***************************************************************************)
(* The response templates, abridged to their opening line and the lines    *)
(* that carry instructions and phone numbers.                              *)
(***************************************************************************)
generate_crisis_response(name, a) ==
    name \o ", I'm very concerned about your immediate safety right now. "
         \o "You've described thoughts of " \o a.crisis_type
         \o " with what sounds like immediate risk. IMMEDIATE ACTION REQUIRED: "
         \o "Call RIGHT NOW: 000 if you're in immediate danger, "
         \o "Lifeline: 13 11 14, Kids Helpline: 1800 55 1800"

generate_high_risk_response(name, a) ==
    "I'm really concerned about you, " \o name
         \o ". You've shared thoughts about " \o a.crisis_type
         \o " and I want you to know that help is available. "
         \o "Lifeline: 13 11 14, Kids Helpline: 1800 55 1800, "
         \o "Crisis Text: 0477 13 11 14"

anxiety_response(name) ==
    "I understand you're experiencing anxiety, " \o name
         \o ". Immediate Coping - 5-4-3-2-1 Grounding"

depression_response(name) ==
    "I hear the pain in your words, " \o name
         \o ". Behavioral Activation - Start Small"

dbt_response(name) ==
    "You're experiencing intense emotions, " \o name
         \o ". TIPP for Crisis Emotions"

\* the general template with the crisis line of the high-risk template added
general_response_with_lifeline(name) ==
    "Thank you for trusting me with what you're going through, " \o name
         \o ". Coping Strategy - Box Breathing. Professional Resources Available: "
         \o "Lifeline: 13 11 14, "
         \o "Kids Helpline: 1800 55 1800 (free counseling)"

general_response(name) ==
    "Thank you for trusting me with what you're going through, " \o name
         \o ". Coping Strategy - Box Breathing. Professional Resources Available: "
         \o "Headspace (12-25 years): headspace.org.au, "
         \o "Kids Helpline: 1800 55 1800 (free counseling)"

\* the reply of handle_message's except branch
technical_issue_response ==
    "I'm having a technical issue. If this is urgent, please call Lifeline: 13 11 14"

\* the follow-up sent with the two crisis buttons
confirm_prompt == "Please confirm you'll get immediate help:"

\* name = teen.preferred_name or teen.first_name if teen else "friend"
\* (teen is None when get_clinical_context failed)
first_name(u) == IF u = 1 THEN "Sam" ELSE "Kim"
display_name(u, teen_loaded) == IF teen_loaded THEN first_name(u) ELSE "friend"

\* the fallback with the keyword categories tested before the crisis levels
professional_fallback_response_keywords_first(message, name, a) ==
    LET message_lower == Lower(message) IN
    IF AnyIn(<<"anxious", "anxiety", "panic", "worry", "nervous">>, message_lower)
    THEN anxiety_response(name)
    ELSE IF AnyIn(<<"depressed", "sad", "empty", "hopeless", "worthless">>, message_lower)
         THEN depression_response(name)
    ELSE IF AnyIn(<<"overwhelmed", "can't cope", "intense", "emotional">>, message_lower)
         THEN dbt_response(name)
    ELSE IF a.level = IMMINENT THEN generate_crisis_response(name, a)
    ELSE IF a.level = HIGH THEN generate_high_risk_response(name, a)
    ELSE general_response(name)

professional_fallback_response(message, name, a) ==
    LET message_lower == Lower(message) IN
    IF a.level = IMMINENT THEN generate_crisis_response(name, a)
    ELSE IF a.level = HIGH THEN generate_high_risk_response(name, a)
    ELSE IF AnyIn(<<"anxious", "anxiety", "panic", "worry", "nervous">>, message_lower)
         THEN anxiety_response(name)
    ELSE IF AnyIn(<<"depressed", "sad", "empty", "hopeless", "worthless">>, message_lower)
         THEN depression_response(name)
    ELSE IF AnyIn(<<"overwhelmed", "can't cope", "intense", "emotional">>, message_lower)
         THEN dbt_response(name)
    ELSE general_response(name)

(***************************************************************************)
(* generate_professional_response.  ai is what model.generate_content      *)
(* does when it is called: it raises, or returns a response whose .text is *)
(* None or a string.                                                       *)
(***************************************************************************)
AiResults ==
    {[raises |-> TRUE, text |-> None],
     [raises |-> FALSE, text |-> "   "],
     [raises |-> FALSE, text |-> " It sounds like a lot is going on. Let's take it one step at a time. "]}

\* ai_response = response.text.strip() if response and response.text else None
ai_response(ai) ==
    IF ai.text = None \/ ai.text = "" THEN None ELSE Strip(ai.text)

\* generate_professional_response without the test that the model returned text
generate_professional_response_unchecked(message, name, is_enabled, ai) ==
    LET risk_assessment == assess_risk(message)
        fallback == professional_fallback_response(message, name, risk_assessment)
    IN  IF ~is_enabled
        THEN [response |-> fallback, risk_assessment |-> risk_assessment,
              ai_invoked |-> FALSE]
        ELSE IF ~ai.raises /\ ai.text # None
        THEN [response |-> Strip(ai.text), risk_assessment |-> risk_assessment,
              ai_invoked |-> TRUE]
        ELSE [response |-> fallback, risk_assessment |-> risk_assessment,
              ai_invoked |-> TRUE]

\* generate_professional_response that takes a reply of the model as the
\* clinical judgement: with model text no immediate action is required
generate_professional_response_deferring(message, name, is_enabled, ai) ==
    LET risk_assessment == assess_risk(message)
        fallback == professional_fallback_response(message, name, risk_assessment)
    IN  IF ~is_enabled
        THEN [response |-> fallback, risk_assessment |-> risk_assessment,
              ai_invoked |-> FALSE]
        ELSE IF ~ai.raises /\ ai_response(ai) # None /\ ai_response(ai) # ""
        THEN [response |-> ai_response(ai),
              risk_assessment |->
                  [risk_assessment EXCEPT !.immediate_action_required = FALSE],
              ai_invoked |-> TRUE]
        ELSE [response |-> fallback, risk_assessment |-> risk_assessment,
              ai_invoked |-> TRUE]

generate_professional_response(message, name, is_enabled, ai) ==
    LET risk_assessment == assess_risk(message)
        fallback == professional_fallback_response(message, name, risk_assessment)
    IN  IF ~is_enabled
        THEN [response |-> fallback, risk_assessment |-> risk_assessment,
              ai_invoked |-> FALSE]
        ELSE IF ~ai.raises /\ ai_response(ai) # None /\ ai_response(ai) # ""
        THEN [response |-> ai_response(ai), risk_assessment |-> risk_assessment,
              ai_invoked |-> TRUE]
        ELSE [response |-> fallback, risk_assessment |-> risk_assessment,
              ai_invoked |-> TRUE]

(***************************************************************************)
(* The database operations.  A row of teen_users holds the two columns the *)
(* handler writes; a row of therapeutic_sessions and of crisis_alerts      *)
(* holds the user and what the risk assessment put in it.                  *)
(***************************************************************************)
new_teen == [total_conversations |-> 0, risk_level |-> LOW]

\* ProfessionalDB.get_or_create_teen, when it does not raise
get_or_create_teen(t, u) ==
    IF u \in DOMAIN t THEN t ELSE t @@ (u :> new_teen)

\* log_clinical_interaction that writes an alert for every level above LOW
log_clinical_interaction_alert_moderate(db, u, a, commit_fails) ==
    IF commit_fails THEN db
    ELSE [teens |->
              IF u \in DOMAIN db.teens
              THEN [db.teens EXCEPT ![u].total_conversations = @ + 1]
              ELSE db.teens,
          sessions |-> Append(db.sessions, [user_id |-> u, level |-> a.level]),
          alerts |->
              IF a.level # LOW
              THEN Append(db.alerts, [user_id |-> u,
                                      crisis_type |-> a.crisis_type,
                                      risk_level |-> a.level])
              ELSE db.alerts]

\* one transaction: session row, alert row, conversation count; commit or rollback
log_clinical_interaction(db, u, a, commit_fails) ==
    IF commit_fails THEN db
    ELSE [teens |->
              IF u \in DOMAIN db.teens
              THEN [db.teens EXCEPT ![u].total_conversations = @ + 1]
              ELSE db.teens,
          sessions |-> Append(db.sessions, [user_id |-> u, level |-> a.level]),
          alerts |->
              IF a.level \in {HIGH, IMMINENT}
              THEN Append(db.alerts, [user_id |-> u,
                                      crisis_type |-> a.crisis_type,
                                      risk_level |-> a.level])
              ELSE db.alerts]

\* update_user_risk_level that never replaces a stored crisis level
update_user_risk_level_keeping_crisis(t, u, a, commit_fails) ==
    IF ~commit_fails /\ u \in DOMAIN t /\ t[u].risk_level \notin {HIGH, IMMINENT}
    THEN [t EXCEPT ![u].risk_level = a.level]
    ELSE t

\* update_user_risk_level that only ever raises the stored level
update_user_risk_level_only_raising(t, u, a, commit_fails) ==
    IF /\ ~commit_fails
       /\ u \in DOMAIN t
       /\ t[u].risk_level # IMMINENT
       /\ ~(t[u].risk_level = HIGH /\ a.level = MODERATE)
    THEN [t EXCEPT ![u].risk_level = a.level]
    ELSE t

\* user.risk_level = risk_level.value; commit, or rollback on an error
update_user_risk_level(t, u, a, commit_fails) ==
    IF ~commit_fails /\ u \in DOMAIN t
    THEN [t EXCEPT ![u].risk_level = a.level]
    ELSE t

(***************************************************************************)
(* handle_message.  f is the set of calls that raise when they are made:   *)
(*   "load"     get_or_create_teen            (re-raised by the callee)    *)
(*   "context"  get_clinical_context          (caught there: teen = None)  *)
(*   "log"      log_clinical_interaction      (caught there: rollback)     *)
(*   "update"   update_user_risk_level        (caught there: rollback)     *)
(*   "reply"    reply_text(response)                                       *)
(*   "prompt"   reply_text of the button prompt                            *)
(*   "apology"  reply_text in the except branch                            *)
(***************************************************************************)
FaultSites == {"load", "context", "log", "update", "reply", "prompt", "apology"}

\* a call that is not made cannot raise: nothing follows a failed load but the
\* apology, the prompt follows a sent reply, the apology follows a failed send
FaultSets ==
    {f \in SUBSET FaultSites :
        /\ "load" \in f => f \subseteq {"load", "apology"}
        /\ "reply" \in f => "prompt" \notin f
        /\ "apology" \in f => f \cap {"load", "reply", "prompt"} # {}}

\* the free-text messages users send
Messages ==
    {"I'm stressed about exams",
     "I cut myself sometimes",
     "I want to kill myself",
     "I want to kill myself tonight, I have the pills"}

\* the call of generate_professional_response in handle_message, tabulated over
\* the arguments it is made with (the callee reads nothing else)
Responses ==
    [m \in Messages, n \in {display_name(u, b) : u \in Users, b \in BOOLEAN},
     e \in BOOLEAN, ai \in AiResults |->
        generate_professional_response(m, n, e, ai)]

Msg(t, b) == [text |-> t, buttons |-> b]

\* follow-up buttons for every crisis level, not only on immediate action
follow_up_buttons_on_crisis(a) == a.level \in {HIGH, IMMINENT}

\* "Provide appropriate follow-up buttons based on risk"
follow_up_buttons(a) == a.immediate_action_required

handle_message(u, message_text, f, ai) ==
    IF "load" \in f
    THEN [teens |-> teens, sessions |-> sessions, alerts |-> alerts,
          last |-> [event |-> "message",
                    user |-> u, text |-> message_text, classified |-> FALSE,
                    risk_assessment |-> initial_assessment, response |-> None,
                    ai_invoked |-> FALSE,
                    faults |-> {"load"} \cup (f \cap {"apology"}),
                    sent |-> IF "apology" \in f THEN <<>>
                             ELSE <<Msg(technical_issue_response, FALSE)>>,
                    raised |-> "apology" \in f]]
    ELSE
    LET teens1 == get_or_create_teen(teens, u)
        name == display_name(u, "context" \notin f)
        gpr == Responses[message_text, name, enabled, ai]
        a == gpr.risk_assessment
        db1 == log_clinical_interaction(
                   [teens |-> teens1, sessions |-> sessions, alerts |-> alerts],
                   u, a, "log" \in f)
        teens2 == IF a.level # LOW
                  THEN update_user_risk_level(db1.teens, u, a, "update" \in f)
                  ELSE db1.teens
        replied == "reply" \notin f
        prompting == replied /\ follow_up_buttons(a)
        failed == ~replied \/ (prompting /\ "prompt" \in f)
        occurred == (f \cap {"context", "log"})
                    \cup (IF a.level # LOW THEN f \cap {"update"} ELSE {})
                    \cup (f \cap {"reply"})
                    \cup (IF prompting THEN f \cap {"prompt"} ELSE {})
                    \cup (IF failed THEN f \cap {"apology"} ELSE {})
    IN  [teens |-> teens2, sessions |-> db1.sessions, alerts |-> db1.alerts,
         last |-> [event |-> "message",
                   user |-> u, text |-> message_text, classified |-> TRUE,
                   risk_assessment |-> a, response |-> gpr.response,
                   ai_invoked |-> gpr.ai_invoked,
                   faults |-> occurred,
                   sent |-> (IF replied THEN <<Msg(gpr.response, FALSE)>> ELSE <<>>)
                            \o (IF prompting /\ "prompt" \notin f
                                THEN <<Msg(confirm_prompt, TRUE)>> ELSE <<>>)
                            \o (IF failed /\ "apology" \notin f
                                THEN <<Msg(technical_issue_response, FALSE)>>
                                ELSE <<>>),
                   raised |-> failed /\ "apology" \in f]]

\* the model is not called when the coach is disabled
NoAi == [raises |-> TRUE, text |-> None]

Init ==
    /\ text = ""
    /\ ra = initial_assessment
    /\ pc = "idle"
    /\ enabled \in BOOLEAN
    /\ teens = <<>>
    /\ sessions = <<>>
    /\ alerts = <<>>
    /\ last = NoMessage
    /\ handled = 0
    /\ call = NoCall
    /\ inflight = {}
    /\ conv = NoConversations

\* handle_message, for at most n messages
HandleMessageWithin(n) ==
    /\ pc = "idle"
    /\ handled < n
    /\ \E u \in Users, message_text \in Messages, f \in FaultSets,
          ai \in (IF enabled THEN AiResults ELSE {NoAi}) :
          LET r == handle_message(u, message_text, f, ai) IN
          /\ r.last.faults = f      \* every fault of f is one that occurs
          /\ teens' = r.teens
          /\ sessions' = r.sessions
          /\ alerts' = r.alerts
          /\ last' = r.last
    /\ handled' = handled + 1
    /\ UNCHANGED <<text, ra, pc, enabled, call, conv, inflight>>

HandleMessage == HandleMessageWithin(MaxMsgs)

(***************************************************************************)
(* The /assess command and the button callbacks.  The callback data are    *)
(* those of the keyboards the bot sends whose handling this file decides:  *)
(* the two crisis buttons of handle_message and a button of the resources  *)
(* menu.  A callback can fail at query.answer() ("answer") and at          *)
(* query.edit_message_text ("edit"); the command at reply_text ("reply").  *)
(***************************************************************************)
assessment_msg ==
    "Clinical Assessment. Which assessment would you like to complete?"

crisis_immediate_text ==
    "Immediate Crisis Support. Call RIGHT NOW: 000 - Emergency services, "
        \o "13 11 14 - Lifeline (24/7), 1800 55 1800 - Kids Helpline. "
        \o "Text HELLO to 0477 13 11 14"

crisis_numbers_text ==
    "Crisis Support Numbers. Lifeline: 13 11 14, Kids Helpline: 1800 55 1800, "
        \o "Beyond Blue: 1300 22 4636, Suicide Callback Service: 1300 659 467. "
        \o "Text HELLO to 0477 13 11 14. Call 000 for immediate danger"

CallbackData == {"crisis_immediate", "crisis_numbers", "resources_local"}

StartsWith(s, prefix) ==
    Len(s) >= Len(prefix) /\ SubSeq(s, 1, Len(prefix)) = prefix

\* the messages handle_crisis_callback shows for the data of a crisis button
handle_crisis_callback(data) ==
    IF data = "crisis_immediate" THEN <<Msg(crisis_immediate_text, FALSE)>>
    ELSE IF data = "crisis_numbers" THEN <<Msg(crisis_numbers_text, FALSE)>>
    ELSE <<>>

\* button_callback: what the user is shown and which calls raised; the except
\* branch logs and sends nothing
button_callback(u, data, f) ==
    LET answered == "answer" \notin f
        editing == answered /\ StartsWith(data, "crisis_")
                            /\ handle_crisis_callback(data) # <<>>
        occurred == (f \cap {"answer"})
                    \cup (IF editing THEN f \cap {"edit"} ELSE {})
    IN  [NoMessage EXCEPT !.event = "callback", !.user = u, !.text = data,
                          !.faults = occurred,
                          !.sent = IF editing /\ "edit" \notin f
                                   THEN handle_crisis_callback(data) ELSE <<>>]

ButtonCallback ==
    /\ pc = "idle"
    /\ handled < MaxMsgs
    /\ \E u \in Users, data \in CallbackData, f \in SUBSET {"answer", "edit"} :
          LET r == button_callback(u, data, f) IN
          /\ r.faults = f
          /\ last' = r
    /\ handled' = handled + 1
    /\ UNCHANGED <<text, ra, pc, enabled, teens, sessions, alerts, call, conv,
                   inflight>>

\* clinical_assessment: the menu of the /assess command; an error of
\* reply_text is not caught
clinical_assessment(u, f) ==
    [NoMessage EXCEPT !.event = "command", !.user = u, !.text = "/assess",
                      !.faults = f,
                      !.sent = IF "reply" \in f THEN <<>>
                               ELSE <<Msg(assessment_msg, TRUE)>>,
                      !.raised = "reply" \in f]

ClinicalAssessment ==
    /\ pc = "idle"
    /\ handled < MaxMsgs
    /\ \E u \in Users, f \in SUBSET {"reply"} :
          last' = clinical_assessment(u, f)
    /\ handled' = handled + 1
    /\ UNCHANGED <<text, ra, pc, enabled, teens, sessions, alerts, call, conv,
                   inflight>>

Next == HandleMessage \/ ButtonCallback \/ ClinicalAssessment

Spec == Init /\ [][Next]_vars

(***************************************************************************)
(* ComposeSpec: one call of generate_professional_response on a text, for  *)
(* either setting of the coach, every outcome of the model call and a      *)
(* loaded or a missing clinical context.                                   *)
(***************************************************************************)
ComposeInit ==
    /\ text \in Texts
    /\ enabled \in BOOLEAN
    /\ call \in [name : {display_name(1, TRUE), display_name(1, FALSE)},
                 ai : IF enabled THEN AiResults ELSE {NoAi}]
    /\ ra = initial_assessment
    /\ pc = "compose"
    /\ teens = <<>>
    /\ sessions = <<>>
    /\ alerts = <<>>
    /\ last = NoMessage
    /\ handled = 0
    /\ conv = NoConversations
    /\ inflight = {}

Compose ==
    /\ pc = "compose"
    /\ LET gpr == generate_professional_response(text, call.name, enabled, call.ai) IN
       /\ ra' = gpr.risk_assessment
       /\ last' = [NoMessage EXCEPT !.user = 1, !.text = text,
                                    !.classified = TRUE,
                                    !.risk_assessment = gpr.risk_assessment,
                                    !.response = gpr.response,
                                    !.ai_invoked = gpr.ai_invoked]
    /\ pc' = "composed"
    /\ UNCHANGED <<text, enabled, teens, sessions, alerts, handled, call, conv,
                   inflight>>

ComposeNext == Compose

ComposeSpec == ComposeInit /\ [][ComposeNext]_vars

(***************************************************************************)
(* ScreenSpec: the screening conversation.  button_callback hands the      *)
(* "assess_" buttons of the /assess menu to handle_assessment_callback,    *)
(* and the questionnaires are the two question lists of                    *)
(* init_assessment_tools; the state machine between them is modelled from  *)
(* the design document (ScreeningEngine and ConversationController):       *)
(* startScreening, submitAnswer, the delegation of handleMessage, cancel.  *)
(***************************************************************************)
phq_a_questions ==
    <<"Little interest or pleasure in doing things",
      "Feeling down, depressed, or hopeless",
      "Trouble falling or staying asleep, or sleeping too much",
      "Feeling tired or having little energy",
      "Poor appetite or overeating",
      "Feeling bad about yourself or that you are a failure",
      "Trouble concentrating on things",
      "Moving or speaking slowly, or being fidgety/restless",
      "Thoughts that you would be better off dead or hurting yourself">>

gad_7_questions ==
    <<"Feeling nervous, anxious, or on edge",
      "Not being able to stop or control worrying",
      "Worrying too much about different things",
      "Trouble relaxing",
      "Being so restless that it's hard to sit still",
      "Becoming easily annoyed or irritable",
      "Feeling afraid as if something awful might happen">>

Instruments == {SCREENING_PHQ9, SCREENING_GAD7}

Questions(mode) ==
    IF mode = SCREENING_PHQ9 THEN phq_a_questions ELSE gad_7_questions

questionCount(mode) == Len(Questions(mode))

\* parsing an answer: an optional sign and decimal digits, blanks around it
Digits == "0123456789"

DigitValue(c) == CHOOSE d \in 0..9 : SubSeq(Digits, d + 1, d + 1) = c

IsDigits(s) ==
    Len(s) > 0 /\ \A i \in 1..Len(s) : In(SubSeq(s, i, i), Digits)

RECURSIVE DigitsValue(_)
DigitsValue(s) ==
    IF Len(s) = 0 THEN 0
    ELSE 10 * DigitsValue(SubSeq(s, 1, Len(s) - 1))
            + DigitValue(SubSeq(s, Len(s), Len(s)))

Unsigned(s) ==
    IF Len(s) > 0 /\ SubSeq(s, 1, 1) \in {"-", "+"} THEN SubSeq(s, 2, Len(s)) ELSE s

IsInteger(rawInput) == IsDigits(Unsigned(Strip(rawInput)))

ParseInteger(rawInput) ==
    LET t == Strip(rawInput) IN
    IF Len(t) > 0 /\ SubSeq(t, 1, 1) = "-"
    THEN 0 - DigitsValue(Unsigned(t)) ELSE DigitsValue(Unsigned(t))

RECURSIVE Sum(_)
Sum(seq) == IF seq = <<>> THEN 0 ELSE seq[1] + Sum(Tail(seq))

\* band tables whose bands end one below their upper bound
severityBand_exclusive(mode, totalScore) ==
    IF mode = SCREENING_PHQ9
    THEN IF totalScore < 4 THEN "Minimal"
         ELSE IF totalScore < 9 THEN "Mild"
         ELSE IF totalScore < 14 THEN "Moderate"
         ELSE IF totalScore < 19 THEN "Moderately severe"
         ELSE "Severe"
    ELSE IF totalScore < 4 THEN "Minimal"
         ELSE IF totalScore < 9 THEN "Mild"
         ELSE IF totalScore < 14 THEN "Moderate"
         ELSE "Severe"

\* the band tables of the two instruments
severityBand(mode, totalScore) ==
    IF mode = SCREENING_PHQ9
    THEN IF totalScore <= 4 THEN "Minimal"
         ELSE IF totalScore <= 9 THEN "Mild"
         ELSE IF totalScore <= 14 THEN "Moderate"
         ELSE IF totalScore <= 19 THEN "Moderately severe"
         ELSE "Severe"
    ELSE IF totalScore <= 4 THEN "Minimal"
         ELSE IF totalScore <= 9 THEN "Mild"
         ELSE IF totalScore <= 14 THEN "Moderate"
         ELSE "Severe"

\* a flag raised only above the threshold
escalate_above(mode, totalScore) == totalScore > 15

escalate(mode, totalScore) == totalScore >= 15

Prompt(q) == [kind |-> "prompt", text |-> q]
ValidationError(e, q) == [kind |-> "error", error |-> e, text |-> q]

\* a result whose total is the number of answers
ScreeningResult_counting(mode, responses) ==
    [kind |-> "result", instrument |-> mode,
     totalScore |-> Len(responses),
     severityBand |-> severityBand(mode, Len(responses)),
     escalate |-> escalate(mode, Len(responses))]

ScreeningResult(mode, responses) ==
    [kind |-> "result", instrument |-> mode,
     totalScore |-> Sum(responses),
     severityBand |-> severityBand(mode, Sum(responses)),
     escalate |-> escalate(mode, Sum(responses))]

\* startScreening that starts the depression screening whatever was chosen
startScreening_always_phq(mode) ==
    [state |-> [mode |-> SCREENING_PHQ9, step |-> 0, responses |-> <<>>],
     out |-> Prompt(Questions(SCREENING_PHQ9)[1])]

\* startScreening: the chosen mode, step 0, no responses; the first question
startScreening(mode) ==
    [state |-> [mode |-> mode, step |-> 0, responses |-> <<>>],
     out |-> Prompt(Questions(mode)[1])]

\* submitAnswer that takes a 4 for an answer
submitAnswer_upto_four(state, rawInput) ==
    IF ~IsInteger(rawInput)
    THEN [state |-> state,
          out |-> ValidationError("NotANumber", Questions(state.mode)[state.step + 1])]
    ELSE IF ParseInteger(rawInput) \notin 0..4
    THEN [state |-> state,
          out |-> ValidationError("OutOfRange", Questions(state.mode)[state.step + 1])]
    ELSE LET responses == Append(state.responses, ParseInteger(rawInput))
             step == state.step + 1
         IN  IF step < questionCount(state.mode)
             THEN [state |-> [mode |-> state.mode, step |-> step,
                              responses |-> responses],
                   out |-> Prompt(Questions(state.mode)[step + 1])]
             ELSE [state |-> EmptyState,
                   out |-> ScreeningResult(state.mode, responses)]

\* a rejected answer that moves on to the next question all the same
rejected_advancing(state, e) ==
    [state |-> [state EXCEPT !.step = (@ + 1) % questionCount(state.mode)],
     out |-> ValidationError(e, Questions(state.mode)[state.step + 1])]

\* a rejected answer: the state as it was, the same question again
rejected(state, e) ==
    [state |-> state,
     out |-> ValidationError(e, Questions(state.mode)[state.step + 1])]

\* an accepted answer that asks the question just answered again
accepted_asking_again(state, answer) ==
    LET responses == Append(state.responses, answer)
        step == state.step + 1
    IN  IF step < questionCount(state.mode)
        THEN [state |-> [mode |-> state.mode, step |-> step,
                         responses |-> responses],
              out |-> Prompt(Questions(state.mode)[step])]
        ELSE [state |-> EmptyState,
              out |-> ScreeningResult(state.mode, responses)]

\* an accepted answer: appended, step incremented; the next question, or the
\* result and the state reset when it was the last one
accepted(state, answer) ==
    LET responses == Append(state.responses, answer)
        step == state.step + 1
    IN  IF step < questionCount(state.mode)
        THEN [state |-> [mode |-> state.mode, step |-> step,
                         responses |-> responses],
              out |-> Prompt(Questions(state.mode)[step + 1])]
        ELSE [state |-> EmptyState,
              out |-> ScreeningResult(state.mode, responses)]

\* submitAnswer, for a state whose mode is a screening mode
submitAnswer(state, rawInput) ==
    IF ~IsInteger(rawInput) THEN rejected(state, "NotANumber")
    ELSE IF ParseInteger(rawInput) \notin 0..3 THEN rejected(state, "OutOfRange")
    ELSE accepted(state, ParseInteger(rawInput))

\* what users type while a questionnaire runs; the second user answers with
\* one value
RawInputs == {"0", " 3 ", "4", "-1", "often"}
InputsOf(u) == IF u = 1 THEN RawInputs ELSE {"3", "often"}

\* the row of clinical_assessments the controller writes for a result
assessment_row(u, result) ==
    [user_id |-> u, assessment_type |-> result.instrument,
     scores |-> [total |-> result.totalScore, severity |-> result.severityBand]]

\* the result message: the summary, and the crisis resources after it when
\* the result is flagged
result_message(result) ==
    "Your result: " \o result.severityBand
        \o " (total score " \o ToString(result.totalScore) \o ")."
        \o (IF result.escalate THEN " " \o crisis_numbers_text ELSE "")

\* what the controller sends and logs for the outcome of the engine
reply_of(out) == IF out.kind = "result" THEN result_message(out) ELSE out.text
logged_of(u, out) == IF out.kind = "result" THEN <<assessment_row(u, out)>> ELSE <<>>

\* the value of `last` before any screening event
NoOutcome ==
    [event |-> "none", user |-> 0, text |-> "", out |-> [kind |-> "none"],
     reply |-> "", logged |-> <<>>]

\* the users table when the bot starts: empty, or kept from an earlier run
TeenTables ==
    {<<>>,
     (1 :> [total_conversations |-> 1, risk_level |-> HIGH])
         @@ (2 :> [total_conversations |-> 1, risk_level |-> LOW])}

ScreenInit ==
    /\ conv = NoConversations
    /\ last = NoOutcome
    /\ text = ""
    /\ ra = initial_assessment
    /\ pc = "idle"
    /\ enabled = FALSE
    /\ teens \in TeenTables
    /\ sessions = <<>>
    /\ alerts = <<>>
    /\ handled = 0
    /\ call = NoCall
    /\ inflight = {}

\* the two screening buttons of the /assess menu and the instrument of each
ScreeningButtons == {"assess_depression", "assess_anxiety"}

instrument_of(data) ==
    IF data = "assess_depression" THEN SCREENING_PHQ9 ELSE SCREENING_GAD7

\* a press of "Depression Screening (PHQ-A)" or "Anxiety Screening (GAD-7)":
\* button_callback passes callback data that start with "assess_" on to the
\* assessment handler
StartScreening ==
    /\ \E u \in Users, data \in ScreeningButtons :
          LET r == startScreening(instrument_of(data)) IN
          /\ StartsWith(data, "assess_")
          /\ conv' = [conv EXCEPT ![u] = r.state]
          /\ last' = [event |-> "start", user |-> u, text |-> data, out |-> r.out,
                      reply |-> reply_of(r.out), logged |-> <<>>]
    /\ UNCHANGED <<text, ra, pc, enabled, teens, sessions, alerts, handled, call,
                   inflight>>

\* handleMessage: a message of a user in a screening mode goes to submitAnswer
\* and nowhere else; a message of a user in NORMAL mode leaves the state alone
ScreenHandleMessage ==
    /\ \E u \in Users : \E rawInput \in InputsOf(u) :
          IF conv[u].mode # NORMAL
          THEN LET r == submitAnswer(conv[u], rawInput) IN
               /\ conv' = [conv EXCEPT ![u] = r.state]
               /\ last' = [event |-> "answer", user |-> u, text |-> rawInput,
                           out |-> r.out, reply |-> reply_of(r.out),
                           logged |-> logged_of(u, r.out)]
          ELSE /\ conv' = conv
               /\ last' = [event |-> "message", user |-> u, text |-> rawInput,
                           out |-> [kind |-> "reply"], reply |-> "",
                           logged |-> <<>>]
    /\ UNCHANGED <<text, ra, pc, enabled, teens, sessions, alerts, handled, call,
                   inflight>>

\* a cancel that clears only a screening that has no answer yet
cancel_before_first_answer(state) ==
    IF state.step = 0 THEN EmptyState ELSE state

\* the state an explicit cancel request leaves
cancel(state) == EmptyState

\* an explicit cancel request clears the user's state
Cancel ==
    /\ \E u \in Users :
          /\ conv' = [conv EXCEPT ![u] = cancel(conv[u])]
          /\ last' = [event |-> "cancel", user |-> u, text |-> "",
                      out |-> [kind |-> "cancelled"], reply |-> "",
                      logged |-> <<>>]
    /\ UNCHANGED <<text, ra, pc, enabled, teens, sessions, alerts, handled, call,
                   inflight>>

\* daily_risk_check: a check-in message to every user whose stored risk level
\* is HIGH or MODERATE; a send that fails is logged and the loop goes on
check_in_text(u) ==
    "Hi " \o first_name(u)
        \o ", just checking in. How are you feeling today? Remember, support is always available."

\* the rows of the users table in the order of the query's result
UserRows == <<1, 2>>

\* daily_risk_check whose loop ends at the first send that fails
daily_risk_check_stopping(table, query_fails, failing) ==
    LET reached(u) ==
            /\ u \in DOMAIN table
            /\ table[u].risk_level \in {HIGH, MODERATE}
            /\ \A v \in failing : u < v
        high_risk_users == SelectSeq(UserRows, reached)
    IN  IF query_fails THEN <<>>
        ELSE [i \in DOMAIN high_risk_users |->
                 [to |-> high_risk_users[i],
                  text |-> check_in_text(high_risk_users[i])]]

\* the messages daily_risk_check sends: none when the query raises (the outer
\* except branch logs the error), else one to each selected user whose send
\* does not fail
daily_risk_check(table, query_fails, failing) ==
    LET delivered(u) ==
            /\ u \in DOMAIN table
            /\ table[u].risk_level \in {HIGH, MODERATE}
            /\ u \notin failing
        high_risk_users == SelectSeq(UserRows, delivered)
    IN  IF query_fails THEN <<>>
        ELSE [i \in DOMAIN high_risk_users |->
                 [to |-> high_risk_users[i],
                  text |-> check_in_text(high_risk_users[i])]]

\* the scheduler's only job, every day at 19:00
DailyRiskCheck ==
    /\ \E query_fails \in BOOLEAN, failing \in SUBSET Users :
          /\ failing \subseteq
                 {u \in DOMAIN teens : teens[u].risk_level \in {HIGH, MODERATE}}
          /\ query_fails => failing = {}
          /\ last' = [event |-> "check_in", user |-> 0, text |-> "",
                      out |-> [kind |-> "check_in",
                               query_failed |-> query_fails,
                               failed |-> failing,
                               sent |-> daily_risk_check(teens, query_fails,
                                                         failing)],
                      reply |-> "", logged |-> <<>>]
    /\ UNCHANGED <<text, ra, pc, enabled, teens, sessions, alerts, handled, call,
                   conv, inflight>>

ScreenNext == StartScreening \/ ScreenHandleMessage \/ Cancel \/ DailyRiskCheck

ScreenSpec == ScreenInit /\ [][ScreenNext]_vars

(***************************************************************************)
(* SubmitSpec: the last answer of a questionnaire.  The user is at the     *)
(* last question of either instrument with any answers given so far (one   *)
(* sequence for every combination of answer counts, so that every total    *)
(* occurs) and gives any of the four answers.                              *)
(***************************************************************************)
Repeat(v, k) == [i \in 1..k |-> v]

\* the non-decreasing answer sequences of length n
SortedAnswers(n) ==
    {Repeat(0, c[1]) \o Repeat(1, c[2]) \o Repeat(2, c[3]) \o Repeat(3, c[4]) :
        c \in {d \in [1..4 -> 0..n] : d[1] + d[2] + d[3] + d[4] = n}}

AtLastQuestion ==
    {[mode |-> m, step |-> questionCount(m) - 1, responses |-> r] :
        m \in Instruments, r \in SortedAnswers(6) \cup SortedAnswers(8)}

SubmitInit ==
    /\ \E s \in AtLastQuestion :
          /\ Len(s.responses) = s.step
          /\ conv = [NoConversations EXCEPT ![1] = s]
    /\ text \in {"0", "1", "2", "3"}
    /\ pc = "answer"
    /\ last = NoOutcome
    /\ ra = initial_assessment
    /\ enabled = FALSE
    /\ teens = <<>>
    /\ sessions = <<>>
    /\ alerts = <<>>
    /\ handled = 0
    /\ call = NoCall
    /\ inflight = {}

SubmitAnswer ==
    /\ pc = "answer"
    /\ conv[1].mode # NORMAL
    /\ LET r == submitAnswer(conv[1], text) IN
       /\ conv' = [conv EXCEPT ![1] = r.state]
       /\ last' = [event |-> "answer", user |-> 1, text |-> text,
                   out |-> r.out, reply |-> reply_of(r.out),
                   logged |-> logged_of(1, r.out)]
    /\ pc' = "answered"
    /\ UNCHANGED <<text, ra, enabled, teens, sessions, alerts, handled, call,
                   inflight>>

SubmitNext == SubmitAnswer

SubmitSpec == SubmitInit /\ [][SubmitNext]_vars

(***************************************************************************)
(* Properties of handle_message (specification Spec).                      *)
(***************************************************************************)
Crisis(a) == a.level \in {HIGH, IMMINENT}

\* the crisis-protocol text composed locally for the last message
CrisisProtocolText ==
    LET name == display_name(last.user, "context" \notin last.faults) IN
    IF last.risk_assessment.level = IMMINENT
    THEN generate_crisis_response(name, last.risk_assessment)
    ELSE generate_high_risk_response(name, last.risk_assessment)

\* C1: for every message classified HIGH or IMMINENT the reply is the locally
\* composed crisis-protocol response and the AI model is not invoked for it,
\* whether or not the coach is enabled.
C1_CrisisReplyIsLocalProtocol ==
    (last.classified /\ Crisis(last.risk_assessment)) =>
        /\ ~last.ai_invoked
        /\ last.response = CrisisProtocolText

\* C2: a failure of the log transaction or of the risk-level update does not
\* keep the response from the user: when the transport works, a message
\* classified HIGH or IMMINENT is answered with the crisis text even though
\* persisting failed.
C2_CrisisTextSentDespiteLogFailure ==
    (/\ last.classified
     /\ Crisis(last.risk_assessment)
     /\ last.faults \cap {"log", "update"} # {}
     /\ last.faults \cap {"reply", "prompt", "apology"} = {}) =>
        /\ Len(last.sent) >= 1
        /\ last.sent[1].text = CrisisProtocolText

\* the row log_clinical_interaction writes to crisis_alerts for a message
AlertRow(l) ==
    [user_id |-> l.user,
     crisis_type |-> l.risk_assessment.crisis_type,
     risk_level |-> l.risk_assessment.level]

\* the log transaction of the last message was committed
Committed(l) == l.classified /\ "log" \notin l.faults

\* C3 as stated: handling a classified message appends exactly one alert row
\* when its level is HIGH or IMMINENT and none otherwise, and no step changes
\* or removes an existing row.
C3_AlertIffCrisisLevel ==
    [][IF handled' = handled + 1 /\ last'.classified /\ Crisis(last'.risk_assessment)
       THEN alerts' = Append(alerts, AlertRow(last'))
       ELSE alerts' = alerts]_vars

\* C3 amended: handling a message appends exactly one alert row when its level
\* is HIGH or IMMINENT and the log transaction commits, and none otherwise (level
\* LOW or MODERATE, or the transaction rolled back, or the handler failed before
\* logging); no step changes or removes an existing row.
C3_AlertIffCrisisLevelCommitted ==
    [][IF handled' = handled + 1 /\ Committed(last') /\ Crisis(last'.risk_assessment)
       THEN alerts' = Append(alerts, AlertRow(last'))
       ELSE alerts' = alerts]_vars

\* one crisis message was logged with its alert, the next lost its alert to a
\* rollback
C3_Witness ==
    /\ handled = 2
    /\ Len(alerts) = 1
    /\ last.classified
    /\ Crisis(last.risk_assessment)
    /\ "log" \in last.faults

\* C4: the IMMINENT and the HIGH response come from two distinct templates, and
\* the response composed for a message classified IMMINENT contains the
\* emergency-service instruction (000).
C4_ImminentReplyHasEmergencyNumber ==
    /\ generate_crisis_response("Sam", last.risk_assessment)
          # generate_high_risk_response("Sam", last.risk_assessment)
    /\ (last.classified /\ last.risk_assessment.level = IMMINENT) =>
          In("000", last.response)

(***************************************************************************)
(* Properties of assess_risk (specification ClassifySpec).                 *)
(***************************************************************************)
\* the IMMINENT rule matches: a temporal/method keyword and a crisis phrase
ImminentMatch ==
    /\ AnyIn(imminent_keywords, Lower(text))
    /\ AnyIn(imminent_crisis_phrases, Lower(text))

\* the HIGH rule's phrase list matches
HighMatch == AnyIn(high_risk_phrases, Lower(text))

SelfHarmMatch == AnyIn(self_harm_phrases, Lower(text))

\* LOW < MODERATE < HIGH < IMMINENT
Rank(level) ==
    CASE level = LOW -> 0
      [] level = MODERATE -> 1
      [] level = HIGH -> 2
      [] level = IMMINENT -> 3

\* C5: the returned level is IMMINENT exactly when the lowercased text contains
\* a phrase of the temporal/method lexicon and a phrase of the lethality-intent
\* lexicon; the example sentence gives IMMINENT with crisis type SUICIDE_PLAN.
C5_ImminentIffBothLexicons ==
    pc = "return" =>
        /\ ra.level = IMMINENT <=> ImminentMatch
        /\ text = "I want to kill myself tonight, I have the pills" =>
              ra.level = IMMINENT /\ ra.crisis_type = SUICIDE_PLAN
        /\ text = "KILL MYSELF tonight" => ra.level = IMMINENT
        /\ text = "kill myself" => ra.level # IMMINENT
        /\ text = " tonight" => ra.level # IMMINENT

C5_Witness ==
    /\ pc = "return"
    /\ text = "I want to kill myself tonight, I have the pills"
    /\ ra.level = IMMINENT

\* C6: a text that is not IMMINENT and contains a phrase of the lethality-intent
\* lexicon of the IMMINENT rule is returned as HIGH with crisis type
\* SUICIDE_IDEATION.
C6_IntentPhraseGivesHigh ==
    (/\ pc = "return"
     /\ ra.level # IMMINENT
     /\ AnyIn(imminent_crisis_phrases, Lower(text))) =>
        /\ ra.level = HIGH
        /\ ra.crisis_type = SUICIDE_IDEATION

\* C7: when a self-harm phrase occurs in a text classified HIGH or IMMINENT, the
\* returned crisis type is SUICIDE_IDEATION (HIGH) or SUICIDE_PLAN (IMMINENT),
\* not SELF_HARM.
C7_CrisisTypeKeptWithSelfHarm ==
    (pc = "return" /\ SelfHarmMatch /\ Crisis(ra)) =>
        ra.crisis_type = IF ra.level = HIGH THEN SUICIDE_IDEATION ELSE SUICIDE_PLAN

\* the level the precedence IMMINENT > HIGH > MODERATE > LOW gives the text
PrecedenceLevel ==
    IF ImminentMatch THEN IMMINENT
    ELSE IF HighMatch THEN HIGH
    ELSE IF SelfHarmMatch THEN MODERATE
    ELSE LOW

\* C8: the returned level is the one of the highest-priority rule that matches,
\* no rule lowers the level the rules before it assigned, and once the level is
\* HIGH or IMMINENT the self-harm rule and the factor scan leave it unchanged.
C8_LevelNeverLowered ==
    /\ [](pc = "return" => ra.level = PrecedenceLevel)
    /\ [][/\ Rank(ra'.level) >= Rank(ra.level)
          /\ (pc \in {"self_harm", "factors"} /\ Crisis(ra)) => ra'.level = ra.level]_vars

\* the self-harm rule matched on a text the HIGH rule had already classified
C8_Witness ==
    /\ pc = "return"
    /\ SelfHarmMatch
    /\ ra.level = HIGH

\* C9: a text with a self-harm phrase that matches neither the IMMINENT nor the
\* HIGH rule is returned as MODERATE with crisis type SELF_HARM.
C9_SelfHarmAloneIsModerate ==
    pc = "return" =>
        /\ (SelfHarmMatch /\ ~ImminentMatch /\ ~HighMatch) =>
              ra.level = MODERATE /\ ra.crisis_type = SELF_HARM
        /\ text = "I cut myself sometimes" =>
              ra.level = MODERATE /\ ra.crisis_type = SELF_HARM

C9_Witness ==
    /\ pc = "return"
    /\ text = "I cut myself sometimes"
    /\ ra.level = MODERATE
    /\ ra.crisis_type = SELF_HARM

\* C10: a text that matches none of the IMMINENT, HIGH and self-harm rules is
\* returned as LOW with no crisis type; an empty or whitespace-only text is
\* returned as LOW with no crisis type and no risk or protective factor.
C10_NoMatchIsLow ==
    pc = "return" =>
        /\ (~ImminentMatch /\ ~HighMatch /\ ~SelfHarmMatch) =>
              ra.level = LOW /\ ra.crisis_type = None
        /\ Strip(text) = "" =>
              /\ ra.level = LOW
              /\ ra.crisis_type = None
              /\ ra.risk_factors = <<>>
              /\ ra.protective_factors = <<>>

C10_Witness ==
    /\ pc = "return"
    /\ text = "   "
    /\ ra = initial_assessment

\* C11: in every assessment assess_risk returns, immediate_action_required is
\* true if and only if the level is IMMINENT.
C11_ImmediateIffImminent ==
    pc = "return" => (ra.immediate_action_required <=> ra.level = IMMINENT)

C11_Witness ==
    /\ pc = "return"
    /\ ra.immediate_action_required
    /\ ra.level = IMMINENT
    /\ HighMatch

\* the elements of a sequence
Range(seq) == {seq[i] : i \in DOMAIN seq}

\* the phrases of both factor lists
FactorMarkers == Range(risk_phrases) \cup Range(protective_phrases)

\* the phrases of the three level rules that occur in the lowercased text t
LevelPhrases ==
    Range(imminent_keywords) \cup Range(imminent_crisis_phrases)
        \cup Range(high_risk_phrases) \cup Range(self_harm_phrases)

LevelPhrasesIn(t) ==
    LET message_lower == Lower(t) IN
    {p \in LevelPhrases : In(p, message_lower)}

\* C12: the factor scan records every marker of the two keyword lists that
\* occurs in the text and nothing else, and it changes neither the level nor the
\* crisis type: the text with a factor marker added, when it matches the same
\* level-rule phrases, gets the same level and crisis type.
C12_FactorScanLeavesLevel ==
    /\ [](pc = "return" =>
            LET message_lower == Lower(text)
                matched == LevelPhrasesIn(text)
            IN  /\ Range(ra.risk_factors) =
                      {p \in Range(risk_phrases) : In(p, message_lower)}
                /\ Range(ra.protective_factors) =
                      {p \in Range(protective_phrases) : In(p, message_lower)}
                /\ \A m \in FactorMarkers :
                      LET t2 == text \o " " \o m
                          a2 == assess_risk(t2)
                      IN  LevelPhrasesIn(t2) = matched =>
                              /\ a2.level = ra.level
                              /\ a2.crisis_type = ra.crisis_type
                              /\ m \in Range(a2.risk_factors)
                                       \cup Range(a2.protective_factors))
    /\ [][pc = "factors" =>
            /\ ra'.level = ra.level
            /\ ra'.crisis_type = ra.crisis_type
            /\ ra'.immediate_action_required = ra.immediate_action_required]_vars

\* a HIGH text with a risk factor and a protective factor
C12_Witness ==
    /\ pc = "return"
    /\ ra.level = HIGH
    /\ ra.risk_factors # <<>>
    /\ text = "kill myselfso alone"

(***************************************************************************)
(* Claims about the composer, checked under ComposeSpec.                   *)
(***************************************************************************)
\* the crisis line numbers of PROFESSIONAL_RESOURCES and the emergency number
\* of the crisis protocol
Lifeline == "13 11 14"
KidsHelpline == "1800 55 1800"
HotlineNumbers ==
    {"000", Lifeline, KidsHelpline, "1300 22 4636", "1300 659 467", "0477 13 11 14"}

NumbersIn(s) == {n \in HotlineNumbers : In(n, s)}

\* the call returned the local fallback, not the text of the model
LocallyComposed ==
    last.response = professional_fallback_response(text, call.name, ra)

LowNoCrisis ==
    /\ pc = "composed"
    /\ ra.level = LOW
    /\ ra.crisis_type = None

\* C14 as stated: for a message classified LOW with no crisis type the composed
\* response contains no hotline text (no crisis phone number).
C14_LowReplyHasNoHotline ==
    LowNoCrisis => NumbersIn(last.response) = {}

\* C14, amended: for a message classified LOW with no crisis type the locally
\* composed response is no crisis protocol: it names neither the emergency
\* number nor Lifeline nor any other crisis line, except that the general
\* template, and only it, lists Kids Helpline as a counselling resource.
C14_LowReplyHasNoCrisisProtocol ==
    (LowNoCrisis /\ LocallyComposed) =>
        /\ NumbersIn(last.response) \subseteq {KidsHelpline}
        /\ (KidsHelpline \in NumbersIn(last.response)
                <=> last.response = general_response(call.name))
        /\ last.response \in {anxiety_response(call.name),
                              depression_response(call.name),
                              dbt_response(call.name),
                              general_response(call.name)}

C14_Witness ==
    /\ LowNoCrisis
    /\ LocallyComposed
    /\ text = "I'm stressed about exams"
    /\ NumbersIn(last.response) = {KidsHelpline}

\* the model call returned text that is not blank
AiGaveText ==
    /\ enabled
    /\ ~call.ai.raises
    /\ call.ai.text # None
    /\ Strip(call.ai.text) # ""

Conversations(t, u) == IF u \in DOMAIN t THEN t[u].total_conversations ELSE 0
StoredRisk(t, u) == IF u \in DOMAIN t THEN t[u].risk_level ELSE LOW

\* C16 as stated: every handled message increments the user's conversation
\* counter by exactly one, and the stored risk level becomes the computed level
\* if and only if that level is not LOW.
C16_CounterAndRiskLevel ==
    [][(handled' = handled + 1 /\ last'.event = "message") =>
          LET u == last'.user
              a == last'.risk_assessment
          IN  /\ Conversations(teens', u) = Conversations(teens, u) + 1
              /\ StoredRisk(teens', u) =
                    IF last'.classified /\ a.level # LOW
                    THEN a.level ELSE StoredRisk(teens, u)]_vars

\* C16, amended: a handled message increments the user's conversation counter
\* by exactly one when the log transaction commits and leaves it unchanged when
\* that transaction is rolled back; the stored risk level becomes the computed
\* level if and only if that level is not LOW and the update commits; a message
\* whose user could not be loaded changes no row, and no other user's row and
\* no other event changes a row.
C16_CounterAndRiskLevelCommitted ==
    [][handled' = handled + 1 =>
          LET u == last'.user
              a == last'.risk_assessment
          IN  IF last'.event = "message" /\ last'.classified
              THEN /\ u \in DOMAIN teens'
                   /\ teens'[u].total_conversations =
                         Conversations(teens, u)
                             + (IF "log" \in last'.faults THEN 0 ELSE 1)
                   /\ teens'[u].risk_level =
                         IF a.level # LOW /\ "update" \notin last'.faults
                         THEN a.level ELSE StoredRisk(teens, u)
                   /\ \A v \in DOMAIN teens' \ {u} :
                         v \in DOMAIN teens /\ teens'[v] = teens[v]
              ELSE teens' = teens]_vars

\* the second message of a user lowered the stored level from a crisis level
\* and its count was lost to a rollback
C16_Witness ==
    /\ handled = 2
    /\ last.event = "message"
    /\ last.classified
    /\ "log" \in last.faults
    /\ last.risk_assessment.level = MODERATE
    /\ last.user \in DOMAIN teens
    /\ teens[last.user].total_conversations = 1
    /\ teens[last.user].risk_level = MODERATE
    /\ Len(alerts) = 1

\* the calls that send something to the user
TransportSites == {"reply", "prompt", "apology", "answer", "edit"}

\* C17: when loading or saving the user's state fails while a message is
\* handled (and sending works), the user receives the technical-issue response
\* and that response names three crisis line numbers.
C17_StateFailureReported ==
    (/\ last.event = "message"
     /\ last.faults \cap {"load", "log", "update"} # {}
     /\ last.faults \cap TransportSites = {}) =>
        \E i \in DOMAIN last.sent :
            /\ In("technical issue", last.sent[i].text)
            /\ Cardinality(NumbersIn(last.sent[i].text)) >= 3

\* C18: every handled event, free text or button callback or command, leaves
\* the user with a message, whatever internal fault occurred (sending itself
\* working).
C18_EveryEventIsAnswered ==
    (last.event # "none" /\ last.faults \cap TransportSites = {}) =>
        /\ last.sent # <<>>
        /\ \A i \in DOMAIN last.sent : last.sent[i].text \notin {"", None}

\* C19 as stated: no response to a free-text message carries suggested actions,
\* whatever its risk level; only the responses of menu entry points do.
C19_NoButtonsOnFreeText ==
    \A i \in DOMAIN last.sent :
        last.sent[i].buttons => last.event \in {"command", "callback"}

\* C19, amended: suggested actions are attached to the menu of a command and,
\* among the responses to free text, only to the confirmation prompt that
\* follows the reply to a message whose assessment requires immediate action
\* (level IMMINENT); the reply itself, the technical-issue message and the text
\* shown for a crisis button carry none.
C19_ButtonsOnlyOnMenuAndImminentPrompt ==
    /\ \A i \in DOMAIN last.sent :
          last.sent[i].buttons <=>
              \/ last.event = "command" /\ last.sent[i].text = assessment_msg
              \/ /\ last.event = "message"
                 /\ last.classified
                 /\ last.risk_assessment.immediate_action_required
                 /\ last.risk_assessment.level = IMMINENT
                 /\ i = 2
                 /\ last.sent[i].text = confirm_prompt
    /\ (/\ last.event = "message"
        /\ last.classified
        /\ last.risk_assessment.level = IMMINENT
        /\ last.faults \cap TransportSites = {}) =>
            /\ Len(last.sent) = 2
            /\ last.sent[2].buttons

C19_Witness ==
    /\ last.event = "message"
    /\ last.risk_assessment.level = IMMINENT
    /\ Len(last.sent) = 2
    /\ ~last.sent[1].buttons
    /\ last.sent[2].buttons

(***************************************************************************)
(* Claims about the screening conversation, checked under ScreenSpec.      *)
(***************************************************************************)
\* C20 as stated: in every reachable ConversationState of every user, mode is
\* NORMAL if and only if step is 0 if and only if responses is empty, the
\* length of responses equals step and every element is in {0,1,2,3}.
C20_ModeStepResponsesAgree ==
    \A u \in Users :
        LET s == conv[u] IN
        /\ s.mode = NORMAL <=> s.step = 0
        /\ s.step = 0 <=> s.responses = <<>>
        /\ Len(s.responses) = s.step
        /\ \A i \in DOMAIN s.responses : s.responses[i] \in 0..3

\* C20, amended: in every reachable ConversationState of every user, mode
\* NORMAL implies step 0 (a screening that was just started has a screening
\* mode and step 0), step is 0 if and only if responses is empty, the length of
\* responses equals step and stays below the instrument's question count, and
\* every element is in {0,1,2,3}.
C20_StateWellFormed ==
    \A u \in Users :
        LET s == conv[u] IN
        /\ s.mode \in Instruments \cup {NORMAL}
        /\ s.mode = NORMAL => s.step = 0
        /\ s.step = 0 <=> s.responses = <<>>
        /\ Len(s.responses) = s.step
        /\ s.mode # NORMAL => s.step < questionCount(s.mode)
        /\ \A i \in DOMAIN s.responses : s.responses[i] \in 0..3

\* one user has just started a questionnaire, the other is at its last question
C20_Witness ==
    /\ conv[2].mode = SCREENING_GAD7
    /\ conv[2].step = 0
    /\ conv[1].mode = SCREENING_PHQ9
    /\ conv[1].step = 8
    /\ conv[1].responses[8] = 3
    /\ conv[1].responses[7] = 0
    /\ last.event = "answer"
    /\ last.out.kind = "error"
    /\ last.out.error = "OutOfRange"

\* inputs that are no integer, and integers that are no answer
NotNumbers == {"often", "", " ", "3.5", "three", "2 3", "-"}
OutOfRangeNumbers == {"4", "-1", "10", "+7", " 12 "}

\* the question a user in a screening mode is at
CurrentQuestion(s) == Questions(s.mode)[s.step + 1]

\* C21: submitAnswer with an input that is no integer gives
\* ValidationError(NotANumber), with an integer outside {0,1,2,3} it gives
\* ValidationError(OutOfRange); either way mode, step and responses stay as they
\* were and the user is asked the same question again.
C21_InvalidAnswerChangesNothing ==
    /\ [](\A u \in Users :
            conv[u].mode # NORMAL =>
                /\ \A raw \in NotNumbers :
                      submitAnswer(conv[u], raw) =
                          [state |-> conv[u],
                           out |-> [kind |-> "error", error |-> "NotANumber",
                                    text |-> CurrentQuestion(conv[u])]]
                /\ \A raw \in OutOfRangeNumbers :
                      submitAnswer(conv[u], raw) =
                          [state |-> conv[u],
                           out |-> [kind |-> "error", error |-> "OutOfRange",
                                    text |-> CurrentQuestion(conv[u])]])
    /\ [][(last'.event = "answer" /\ last'.text \in NotNumbers \cup OutOfRangeNumbers) =>
            /\ conv' = conv
            /\ last'.out.kind = "error"
            /\ last'.out.error = IF last'.text \in NotNumbers
                                 THEN "NotANumber" ELSE "OutOfRange"
            /\ last'.out.text = CurrentQuestion(conv[last'.user])]_vars

\* a 4 was refused at the fourth question
C21_Witness ==
    /\ last.event = "answer"
    /\ last.text = "4"
    /\ last.out.kind = "error"
    /\ last.out.error = "OutOfRange"
    /\ conv[last.user].step = 3
    /\ conv[last.user].responses = <<0, 3, 0>>

\* the answers users give, with the integer each one stands for
ValidAnswers == {<<"0", 0>>, <<" 3 ", 3>>, <<"3", 3>>}

\* C22: a valid answer submitted in a screening mode is appended to responses
\* and step grows by exactly one; while the new step is below the question count
\* (9 for PHQ-9, 7 for GAD-7) the reply is the question at index step and the
\* mode stays; no other user's state changes.
C22_ValidAnswerAdvances ==
    [][\A va \in ValidAnswers :
          (last'.event = "answer" /\ last'.text = va[1]) =>
              LET u == last'.user
                  s == conv[u]
                  count == IF s.mode = SCREENING_PHQ9 THEN 9 ELSE 7
              IN  /\ s.step + 1 < count =>
                        /\ conv'[u].mode = s.mode
                        /\ conv'[u].step = s.step + 1
                        /\ conv'[u].responses = s.responses \o <<va[2]>>
                        /\ last'.out.kind = "prompt"
                        /\ last'.out.text = Questions(s.mode)[conv'[u].step + 1]
                        /\ last'.out.text # CurrentQuestion(s)
                  /\ \A v \in Users \ {u} : conv'[v] = conv[v]]_vars

\* the sixth answer of a GAD-7 was taken and the seventh question asked
C22_Witness ==
    /\ last.event = "answer"
    /\ last.out.kind = "prompt"
    /\ conv[last.user].mode = SCREENING_GAD7
    /\ conv[last.user].step = 6
    /\ last.out.text = "Feeling afraid as if something awful might happen"

\* the sum of a sequence of answers, counted value by value
TotalOf(responses) ==
    LET n(v) == Cardinality({i \in DOMAIN responses : responses[i] = v})
    IN  n(1) + 2 * n(2) + 3 * n(3)

\* C23: when a valid answer brings step to the question count, one
\* ScreeningResult is produced whose totalScore is the sum of the responses,
\* one assessment row is written to the log and the user's state is reset to
\* NORMAL, step 0, no responses; a result is produced by the valid answer number
\* questionCount and by no other event.
C23_LastAnswerCompletes ==
    /\ [][\A va \in ValidAnswers :
            (last'.event = "answer" /\ last'.text = va[1]) =>
                LET u == last'.user
                    s == conv[u]
                    count == IF s.mode = SCREENING_PHQ9 THEN 9 ELSE 7
                    all == s.responses \o <<va[2]>>
                IN  IF Len(all) = count
                    THEN /\ last'.out.kind = "result"
                         /\ last'.out.instrument = s.mode
                         /\ last'.out.totalScore = TotalOf(all)
                         /\ last'.logged =
                               <<[user_id |-> u, assessment_type |-> s.mode,
                                  scores |-> [total |-> TotalOf(all),
                                              severity |-> last'.out.severityBand]]>>
                         /\ conv'[u] = [mode |-> NORMAL, step |-> 0,
                                        responses |-> <<>>]
                    ELSE /\ last'.out.kind = "prompt"
                         /\ last'.logged = <<>>
                         /\ conv'[u].mode = s.mode]_vars
    /\ [][(last'.out.kind = "result" \/ last'.logged # <<>>) =>
            /\ last'.event = "answer"
            /\ \E va \in ValidAnswers : last'.text = va[1]
            /\ conv[last'.user].mode \in Instruments
            /\ conv[last'.user].step + 1 = questionCount(conv[last'.user].mode)]_vars

\* a PHQ-9 was completed with a total of 12
C23_Witness ==
    /\ last.event = "answer"
    /\ last.out.kind = "result"
    /\ last.out.instrument = SCREENING_PHQ9
    /\ last.out.totalScore = 12
    /\ Len(last.logged) = 1
    /\ conv[last.user] = EmptyState

(***************************************************************************)
(* Claims about scoring, checked under SubmitSpec.                         *)
(***************************************************************************)
\* the band tables as printed
PHQ9Bands ==
    [t \in 0..27 |-> IF t \in 0..4 THEN "Minimal"
                     ELSE IF t \in 5..9 THEN "Mild"
                     ELSE IF t \in 10..14 THEN "Moderate"
                     ELSE IF t \in 15..19 THEN "Moderately severe"
                     ELSE "Severe"]

GAD7Bands ==
    [t \in 0..21 |-> IF t \in 0..4 THEN "Minimal"
                     ELSE IF t \in 5..9 THEN "Mild"
                     ELSE IF t \in 10..14 THEN "Moderate"
                     ELSE "Severe"]

Completed == pc = "answered" /\ last.out.kind = "result"

\* C24: for every completed answer sequence the severity band is the band-table
\* value of the total: PHQ-9 0-4 Minimal, 5-9 Mild, 10-14 Moderate, 15-19
\* Moderately severe, 20-27 Severe; GAD-7 0-4 Minimal, 5-9 Mild, 10-14 Moderate,
\* 15-21 Severe.
C24_BandMatchesTable ==
    /\ pc = "answered" => last.out.kind = "result"
    /\ Completed =>
          IF last.out.instrument = SCREENING_PHQ9
          THEN /\ last.out.totalScore \in 0..27
               /\ last.out.severityBand = PHQ9Bands[last.out.totalScore]
          ELSE /\ last.out.totalScore \in 0..21
               /\ last.out.severityBand = GAD7Bands[last.out.totalScore]

\* a PHQ-9 total of 19, the upper end of its band
C24_Witness ==
    /\ Completed
    /\ last.out.instrument = SCREENING_PHQ9
    /\ last.out.totalScore = 19
    /\ last.out.severityBand = "Moderately severe"

\* C25: a completed screening is flagged for escalation exactly when its total
\* is 15 or more; the reply of a flagged result holds the result summary and the
\* crisis resources, that of an unflagged one the summary alone; the state is
\* NORMAL afterwards.
C25_EscalateFromFifteen ==
    Completed =>
        /\ last.out.escalate <=> last.out.totalScore >= 15
        /\ In("Your result: " \o last.out.severityBand, last.reply)
        /\ last.out.escalate <=> In(crisis_numbers_text, last.reply)
        /\ last.out.escalate <=> NumbersIn(last.reply) # {}
        /\ conv[1] = EmptyState

\* seven GAD-7 answers of 3
C25_Witness ==
    /\ Completed
    /\ last.out.instrument = SCREENING_GAD7
    /\ last.logged[1].scores.total = 21
    /\ last.out.totalScore = 21
    /\ last.out.severityBand = "Severe"
    /\ last.out.escalate
    /\ In("Lifeline: 13 11 14", last.reply)
    /\ conv[1].mode = NORMAL

ControlHandleMessage == HandleMessageWithin(MaxControlMsgs)

ControlNext == StartScreening \/ ControlHandleMessage

ControlSpec == Init /\ [][ControlNext]_vars

\* C27: a message of a user whose mode is a screening mode is not classified:
\* the classifier is not invoked, no CrisisAlert is created and no crisis
\* response is sent, whatever the text says.
C27_ScreeningBypassesClassifier ==
    (last.event = "message" /\ conv[last.user].mode # NORMAL) =>
        /\ ~last.classified
        /\ alerts = <<>>
        /\ \A i \in 1..Len(last.sent) :
              /\ last.sent[i].text # generate_crisis_response(
                     display_name(last.user, TRUE), last.risk_assessment)
              /\ last.sent[i].text # generate_high_risk_response(
                     display_name(last.user, TRUE), last.risk_assessment)

(***************************************************************************)
(* A further claim about the classifier (ClassifySpec).                    *)
(***************************************************************************)
\* C30: when a self-harm phrase matches in a text that is classified HIGH or
\* IMMINENT, the returned risk factors record the self-harm match: they hold
\* a matched self-harm phrase or the self-harm marker.
C30_SelfHarmRecordedAsFactor ==
    (pc = "return" /\ SelfHarmMatch /\ Crisis(ra)) =>
        \E i \in DOMAIN ra.risk_factors :
            \/ ra.risk_factors[i] = SELF_HARM
            \/ /\ ra.risk_factors[i] \in Range(self_harm_phrases)
               /\ In(ra.risk_factors[i], Lower(text))

(***************************************************************************)
(* Cancellation and background jobs (ScreenSpec).                          *)
(***************************************************************************)
\* C29: a cancel request leaves the user's state NORMAL with step 0 and no
\* responses, whatever the step was; and a user's state changes only in a step
\* that is that user's own cancel, answer or start: the daily check-in job, the
\* only scheduled job, changes no state, and neither does an event of another
\* user.
C29_CancelResetsAndNothingExpires ==
    [][/\ last'.event = "cancel" =>
             conv'[last'.user] = [mode |-> NORMAL, step |-> 0, responses |-> <<>>]
       /\ \A u \in Users :
             conv'[u] # conv[u] =>
                 /\ last'.event \in {"cancel", "answer", "start"}
                 /\ last'.user = u]_vars

\* the daily job has sent a check-in to a user who is in the middle of a
\* screening, and the screening is still there
C29_Witness ==
    /\ last.event = "check_in"
    /\ \E i \in DOMAIN last.out.sent : last.out.sent[i].to = 1
    /\ conv[1] = [mode |-> SCREENING_PHQ9, step |-> 2, responses |-> <<0, 3>>]

(***************************************************************************)
(* SerialSpec: handle_message step by step.  A coroutine runs without      *)
(* interruption between two awaits, so a handler is cut where it awaits:   *)
(* after the load (it awaits generate_professional_response), after the    *)
(* log and the risk level update (it awaits reply_text) and after the      *)
(* reply when the confirmation prompt follows.  The database calls are     *)
(* synchronous.  No fault but a failing commit is drawn here.              *)
(***************************************************************************)
\* an application built with concurrent_updates(True): every update gets its
\* own task at once
may_dispatch_concurrently(handlers) == TRUE

\* Application.builder() ... .build() leaves concurrent_updates off: the
\* application awaits the handler of one update before it takes the next
may_dispatch(handlers) == handlers = {}

\* an update is taken from the queue; the handler runs up to its first await
Dispatch ==
    /\ handled < MaxSerialMsgs
    /\ may_dispatch(inflight)
    /\ \E u \in Users, message_text \in Messages :
          /\ teens' = get_or_create_teen(teens, u)
          /\ inflight' = inflight \cup
                 {[seq |-> handled + 1, user |-> u, text |-> message_text,
                   at |-> "generate", risk_assessment |-> initial_assessment,
                   response |-> None]}
          /\ last' = [event |-> "dispatch", user |-> u, seq |-> handled + 1]
    /\ handled' = handled + 1
    /\ UNCHANGED <<text, ra, pc, enabled, sessions, alerts, call, conv>>

\* generate_professional_response has returned: log_clinical_interaction and
\* update_user_risk_level run, then the handler awaits reply_text
LogInteraction ==
    /\ \E h \in inflight, ai \in (IF enabled THEN AiResults ELSE {NoAi}),
          log_fails \in BOOLEAN, update_fails \in BOOLEAN :
          LET gpr == Responses[h.text, display_name(h.user, TRUE), enabled, ai]
              a == gpr.risk_assessment
              db1 == log_clinical_interaction(
                         [teens |-> teens, sessions |-> sessions, alerts |-> alerts],
                         h.user, a, log_fails)
              teens2 == IF a.level # LOW
                        THEN update_user_risk_level(db1.teens, h.user, a, update_fails)
                        ELSE db1.teens
          IN  /\ h.at = "generate"
              /\ update_fails => a.level # LOW
              /\ teens' = teens2
              /\ sessions' = db1.sessions
              /\ alerts' = db1.alerts
              /\ inflight' = (inflight \ {h}) \cup
                     {[h EXCEPT !.at = "reply", !.risk_assessment = a,
                                !.response = gpr.response]}
              /\ last' = [event |-> "log", user |-> h.user, seq |-> h.seq,
                          committed |-> ~log_fails]
    /\ UNCHANGED <<text, ra, pc, enabled, handled, call, conv>>

\* the reply is sent; the handler returns unless the prompt follows
Reply ==
    /\ \E h \in inflight :
          /\ h.at = "reply"
          /\ inflight' = (inflight \ {h}) \cup
                 (IF follow_up_buttons(h.risk_assessment)
                  THEN {[h EXCEPT !.at = "prompt"]} ELSE {})
          /\ last' = [event |-> "reply", user |-> h.user, seq |-> h.seq,
                      sent |-> Msg(h.response, FALSE)]
    /\ UNCHANGED <<text, ra, pc, enabled, teens, sessions, alerts, handled, call,
                   conv>>

\* the confirmation prompt is sent and the handler returns
ConfirmPrompt ==
    /\ \E h \in inflight :
          /\ h.at = "prompt"
          /\ inflight' = inflight \ {h}
          /\ last' = [event |-> "prompt", user |-> h.user, seq |-> h.seq,
                      sent |-> Msg(confirm_prompt, TRUE)]
    /\ UNCHANGED <<text, ra, pc, enabled, teens, sessions, alerts, handled, call,
                   conv>>

SerialNext == Dispatch \/ LogInteraction \/ Reply \/ ConfirmPrompt

SerialSpec == Init /\ [][SerialNext]_vars

\* the rows of table t that belong to user u
RowsOf(t, u) == {i \in DOMAIN t : t[i].user_id = u}

\* C28: handlers of messages of one user never overlap (at most one of them
\* is between its first and its last step), every committed log adds exactly
\* one session row and one to the user's conversation counter, so that the
\* counter always equals the number of the user's session rows, and a step
\* changes no row of a user other than the one whose message it handles.
C28_SerializedPerUser ==
    /\ [](/\ \A h1 \in inflight, h2 \in inflight :
                h1.user = h2.user => h1 = h2
          /\ \A u \in DOMAIN teens :
                teens[u].total_conversations = Cardinality(RowsOf(sessions, u)))
    /\ [][/\ last'.event = "log" =>
                LET u == last'.user IN
                IF last'.committed
                THEN /\ teens'[u].total_conversations =
                            teens[u].total_conversations + 1
                     /\ Len(sessions') = Len(sessions) + 1
                     /\ SubSeq(sessions', 1, Len(sessions)) = sessions
                     /\ sessions'[Len(sessions')].user_id = u
                     /\ teens'[u].risk_level \in
                            {teens[u].risk_level, sessions'[Len(sessions')].level}
                ELSE /\ sessions' = sessions
                     /\ alerts' = alerts
                     /\ teens'[u].total_conversations = teens[u].total_conversations
          /\ \A v \in Users :
                (\/ (v \in DOMAIN teens') # (v \in DOMAIN teens)
                 \/ v \in DOMAIN teens /\ teens'[v] # teens[v]
                 \/ RowsOf(sessions', v) # RowsOf(sessions, v)
                 \/ RowsOf(alerts', v) # RowsOf(alerts, v))
                    => last'.event \in {"dispatch", "log"} /\ last'.user = v]_vars

\* both users have been served, one of them twice, and every handler is done
C28_Witness ==
    /\ inflight = {}
    /\ DOMAIN teens = {1, 2}
    /\ teens[1].total_conversations = 2
    /\ teens[2].total_conversations = 1
    /\ teens[1].risk_level = HIGH
    /\ teens[2].risk_level = LOW
    /\ sessions[2].user_id = 2

(***************************************************************************)
(* Further claims about the composer (ComposeSpec).                        *)
(***************************************************************************)
\* the sentence each template of the fallback opens with
TemplateMarkers ==
    [crisis |-> "I'm very concerned about your immediate safety",
     high |-> "I'm really concerned about you",
     anxiety |-> "I understand you're experiencing anxiety",
     depression |-> "I hear the pain in your words",
     overwhelm |-> "You're experiencing intense emotions",
     general |-> "Thank you for trusting me"]

\* the templates a response is made of
TemplatesIn(response) ==
    {c \in DOMAIN TemplateMarkers : In(TemplateMarkers[c], response)}

\* C31: whenever the fallback composes the response, the response is exactly
\* one template, chosen by the precedence IMMINENT crisis template, HIGH
\* template, anxiety, depression, emotional overwhelm, general; a HIGH or
\* IMMINENT message never gets a keyword or the general template from it.
C31_FallbackPrecedence ==
    (pc = "composed" /\ ~AiGaveText) =>
        LET t == Lower(text)
            has(words) == \E w \in words : In(w, t)
            expected ==
                IF ra.level = IMMINENT THEN "crisis"
                ELSE IF ra.level = HIGH THEN "high"
                ELSE IF has({"anxious", "anxiety", "panic", "worry", "nervous"})
                     THEN "anxiety"
                ELSE IF has({"depressed", "sad", "empty", "hopeless", "worthless"})
                     THEN "depression"
                ELSE IF has({"overwhelmed", "can't cope", "intense", "emotional"})
                     THEN "overwhelm"
                ELSE "general"
        IN  TemplatesIn(last.response) = {expected}

\* a HIGH message that also holds an anxiety keyword got the HIGH template
C31_Witness ==
    /\ pc = "composed"
    /\ ~AiGaveText
    /\ text = "kill myselfanxious"
    /\ ra.level = HIGH
    /\ TemplatesIn(last.response) = {"high"}

\* C33: on every path of generate_professional_response (coach disabled,
\* model text, blank model output, model exception) the returned assessment
\* is the one assess_risk computes on the message: what the model returns
\* changes neither the level, the crisis type, the factors nor
\* immediate_action_required.
C33_AssessmentUntouchedByResponder ==
    pc = "composed" =>
        /\ ra = assess_risk(text)
        /\ last.risk_assessment = ra
        /\ ra.immediate_action_required = (ra.level = IMMINENT)

\* the model answered an IMMINENT message and the assessment still asks for
\* immediate action
C33_Witness ==
    /\ pc = "composed"
    /\ AiGaveText
    /\ last.response = Strip(call.ai.text)
    /\ ra.level = IMMINENT
    /\ ra.immediate_action_required

(***************************************************************************)
(* A relation between the classifications of two texts (ClassifySpec).     *)
(***************************************************************************)
\* the texts the classified text is compared with: every fragment alone and
\* every example, with the phrases of the level rules each contains and the
\* rank of its level
ReferenceTexts == Fragments \cup Examples

References ==
    [s \in ReferenceTexts |->
        [phrases |-> LevelPhrasesIn(s), rank |-> Rank(assess_risk(s).level)]]

\* C34: the level is monotone in the matched phrases: when every phrase of
\* the level rules that occurs in a text s also occurs in a text t, the level
\* of t is at least the level of s (LOW < MODERATE < HIGH < IMMINENT); in
\* particular more text appended never lowers the level.
C34_LevelMonotoneInPhrases ==
    pc = "return" =>
        LET matched == LevelPhrasesIn(text) IN
        /\ \A s \in ReferenceTexts :
              /\ References[s].phrases \subseteq matched =>
                     Rank(ra.level) >= References[s].rank
              /\ matched \subseteq References[s].phrases =>
                     References[s].rank >= Rank(ra.level)
        /\ \A s \in {"kill myself", "I cut myself", " tonight"} :
              Rank(assess_risk(text \o s).level) >= Rank(ra.level)

\* "kill myself" alone is HIGH, and the text that adds " tonight" to it is
\* IMMINENT
C34_Witness ==
    /\ pc = "return"
    /\ text = "kill myself tonight"
    /\ ra.level = IMMINENT
    /\ References["kill myself"].phrases \subseteq LevelPhrasesIn(text)
    /\ References["kill myself"].phrases # LevelPhrasesIn(text)
    /\ References["kill myself"].rank = Rank(HIGH)

(***************************************************************************)
(* Further claims about the handler's bookkeeping (Spec).                  *)
(***************************************************************************)
\* the level of the latest session row of user u whose level is not LOW, and
\* LOW when there is none
LastRaised(t, u) ==
    LET rows == {i \in DOMAIN t : t[i].user_id = u /\ t[i].level # LOW} IN
    IF rows = {} THEN LOW
    ELSE t[CHOOSE i \in rows : \A j \in rows : j <= i].level

\* C32: a message handled without any failure keeps the stored risk level of
\* its user equal to the level of the user's most recent message that was not
\* LOW (LOW when there is none): a LOW message leaves the stored level as it
\* is, any other level replaces it, also a lower one; and no step ever takes a
\* stored level back to LOW.
C32_StoredLevelIsLastRaised ==
    /\ [](handled = 0 =>
             \A u \in Users :
                 StoredRisk(teens, u) = LOW /\ LastRaised(sessions, u) = LOW)
    /\ [][/\ (handled' = handled + 1 /\ last'.event = "message"
                /\ last'.classified /\ last'.faults = {}) =>
                 LET u == last'.user
                     a == last'.risk_assessment
                 IN  /\ StoredRisk(teens', u) =
                            IF a.level = LOW THEN StoredRisk(teens, u) ELSE a.level
                     /\ StoredRisk(teens, u) = LastRaised(sessions, u) =>
                            StoredRisk(teens', u) = LastRaised(sessions', u)
          /\ \A u \in Users :
                 StoredRisk(teens, u) # LOW => StoredRisk(teens', u) # LOW]_vars

\* an IMMINENT message followed by a MODERATE one of the same user, both
\* handled without failure: the stored level is MODERATE
C32_Witness ==
    /\ handled = 2
    /\ last.event = "message"
    /\ last.faults = {}
    /\ Len(sessions) = 2
    /\ sessions[1] = [user_id |-> 1, level |-> IMMINENT]
    /\ sessions[2] = [user_id |-> 1, level |-> MODERATE]
    /\ teens[1].risk_level = MODERATE
    /\ LastRaised(sessions, 1) = MODERATE

(***************************************************************************)
(* StepSpec: one run of handle_message, call by call.  pc is the call the  *)
(* handler is about to make, call.faults the calls that raise when they    *)
(* are made, last.steps the calls made so far and last.sent the messages   *)
(* that went out.                                                          *)
(***************************************************************************)
\* a handler that replies before it logs and updates
next_site_reply_first(site, a, raised) ==
    LET rest == IF follow_up_buttons(a) THEN "prompt" ELSE "done" IN
    IF raised /\ site = "apology" THEN "raised"
    ELSE IF raised /\ site \in {"load", "reply", "prompt"} THEN "apology"
    ELSE CASE site = "load" -> "context"
           [] site = "context" -> "generate"
           [] site = "generate" -> "reply"
           [] site = "reply" -> "log"
           [] site = "log" -> IF a.level # LOW THEN "update" ELSE rest
           [] site = "update" -> rest
           [] site = "prompt" -> "done"
           [] site = "apology" -> "done"

\* the call that follows the call at site: an exception of get_or_create_teen
\* or of reply_text reaches the except branch, which sends the apology; the
\* other callees catch their own exceptions and the handler goes on
next_site(site, a, raised) ==
    IF raised /\ site = "apology" THEN "raised"
    ELSE IF raised /\ site \in {"load", "reply", "prompt"} THEN "apology"
    ELSE CASE site = "load" -> "context"
           [] site = "context" -> "generate"
           [] site = "generate" -> "log"
           [] site = "log" -> IF a.level # LOW THEN "update" ELSE "reply"
           [] site = "update" -> "reply"
           [] site = "reply" -> IF follow_up_buttons(a) THEN "prompt" ELSE "done"
           [] site = "prompt" -> "done"
           [] site = "apology" -> "done"

NoSteps == [event |-> "steps", steps |-> <<>>, sent |-> <<>>, response |-> None]

StepInit ==
    /\ text \in Messages
    /\ enabled \in BOOLEAN
    /\ call \in [user : {1}, name : {"friend"}, faults : SUBSET FaultSites,
                 ai : IF enabled THEN AiResults ELSE {NoAi}]
    /\ pc = "load"
    /\ ra = initial_assessment
    /\ teens \in TeenTables
    /\ sessions = <<>>
    /\ alerts = <<>>
    /\ last = NoSteps
    /\ handled = 0
    /\ conv = NoConversations
    /\ inflight = {}

\* the bookkeeping every step does: the call is recorded and pc moves on
Advance(site, a, l) ==
    /\ pc = site
    /\ pc' = next_site(site, a, site \in call.faults)
    /\ last' = [l EXCEPT !.steps = Append(@, site)]

StepLoad ==
    /\ teens' = IF "load" \in call.faults THEN teens
                ELSE get_or_create_teen(teens, call.user)
    /\ Advance("load", ra, last)
    /\ UNCHANGED <<text, ra, enabled, sessions, alerts, handled, call, conv,
                   inflight>>

StepContext ==
    /\ call' = [call EXCEPT
                   !.name = display_name(call.user, "context" \notin call.faults)]
    /\ Advance("context", ra, last)
    /\ UNCHANGED <<text, ra, enabled, teens, sessions, alerts, handled, conv,
                   inflight>>

StepGenerate ==
    /\ LET gpr == Responses[text, call.name, enabled, call.ai] IN
       /\ ra' = gpr.risk_assessment
       /\ Advance("generate", gpr.risk_assessment, [last EXCEPT !.response = gpr.response])
    /\ UNCHANGED <<text, enabled, teens, sessions, alerts, handled, call, conv,
                   inflight>>

StepLog ==
    /\ LET db1 == log_clinical_interaction(
                      [teens |-> teens, sessions |-> sessions, alerts |-> alerts],
                      call.user, ra, "log" \in call.faults)
       IN  /\ teens' = db1.teens
           /\ sessions' = db1.sessions
           /\ alerts' = db1.alerts
    /\ Advance("log", ra, last)
    /\ UNCHANGED <<text, ra, enabled, handled, call, conv, inflight>>

StepUpdate ==
    /\ teens' = update_user_risk_level(teens, call.user, ra,
                                       "update" \in call.faults)
    /\ Advance("update", ra, last)
    /\ UNCHANGED <<text, ra, enabled, sessions, alerts, handled, call, conv,
                   inflight>>

StepReply ==
    /\ Advance("reply", ra,
               IF "reply" \in call.faults THEN last
               ELSE [last EXCEPT !.sent = Append(@, Msg(last.response, FALSE))])
    /\ UNCHANGED <<text, ra, enabled, teens, sessions, alerts, handled, call,
                   conv, inflight>>

StepPrompt ==
    /\ Advance("prompt", ra,
               IF "prompt" \in call.faults THEN last
               ELSE [last EXCEPT !.sent = Append(@, Msg(confirm_prompt, TRUE))])
    /\ UNCHANGED <<text, ra, enabled, teens, sessions, alerts, handled, call,
                   conv, inflight>>

StepApology ==
    /\ Advance("apology", ra,
               IF "apology" \in call.faults THEN last
               ELSE [last EXCEPT
                        !.sent = Append(@, Msg(technical_issue_response, FALSE))])
    /\ UNCHANGED <<text, ra, enabled, teens, sessions, alerts, handled, call,
                   conv, inflight>>

StepNext ==
    \/ StepLoad \/ StepContext \/ StepGenerate \/ StepLog \/ StepUpdate
    \/ StepReply \/ StepPrompt \/ StepApology

StepSpec == StepInit /\ [][StepNext]_vars

\* the run call by call sends what handle_message sends
StepAgrees ==
    pc \in {"done", "raised"} =>
        LET r == handle_message(call.user, text, call.faults, call.ai) IN
        /\ last.sent = r.last.sent
        /\ (pc = "raised") = r.last.raised

\* the order of the calls in the text of handle_message
SiteOrder ==
    <<"load", "context", "generate", "log", "update", "reply", "prompt", "apology">>

Position(site) == CHOOSE i \in DOMAIN SiteOrder : SiteOrder[i] = site

Made(site) == site \in Range(last.steps)

\* the handler has returned or raised
Finished == pc \in {"done", "raised"}

PromptSent == \E i \in DOMAIN last.sent : last.sent[i].buttons

\* C35 as stated, the part about the prompt: when the handler is done, the
\* confirmation prompt has been sent if and only if immediate_action_required
\* is true.
C35_PromptIffImmediate ==
    Finished => (PromptSent <=> ra.immediate_action_required)

\* C35, amended: the calls of one message are made in the order classify and
\* compose, log, update of the risk level (only for a level other than LOW),
\* reply, prompt; the prompt is sent if and only if immediate_action_required
\* is true, the reply was sent and the prompt's own send does not fail, and it
\* always comes after the reply; once the reply has been attempted the
\* committed log, alert and risk level are in place and stay there whether or
\* not the reply fails.
C35_StepsInOrder ==
    /\ \A i \in DOMAIN last.steps, j \in DOMAIN last.steps :
          i < j => Position(last.steps[i]) < Position(last.steps[j])
    /\ Made("log") => Made("generate")
    /\ Made("update") => Made("log") /\ ra.level # LOW
    /\ Made("reply") => Made("log") /\ (ra.level # LOW => Made("update"))
    /\ Made("prompt") =>
          /\ Made("reply")
          /\ "reply" \notin call.faults
          /\ ra.immediate_action_required
    /\ PromptSent =>
          /\ Len(last.sent) = 2
          /\ last.sent[1] = [text |-> last.response, buttons |-> FALSE]
          /\ last.sent[2].buttons
    /\ Finished =>
          (PromptSent <=>
              /\ ra.immediate_action_required
              /\ Made("reply")
              /\ call.faults \cap {"reply", "prompt"} = {})
    /\ (Made("reply") /\ "log" \notin call.faults) =>
          /\ sessions = <<[user_id |-> call.user, level |-> ra.level]>>
          /\ alerts = IF ra.level \in {HIGH, IMMINENT}
                      THEN <<[user_id |-> call.user, crisis_type |-> ra.crisis_type,
                              risk_level |-> ra.level]>>
                      ELSE <<>>
    /\ (Made("reply") /\ "update" \notin call.faults /\ ra.level # LOW) =>
          teens[call.user].risk_level = ra.level

\* the reply to an IMMINENT message failed: no prompt went out, the apology
\* did, and the session row, the alert and the risk level are stored
C35_Witness ==
    /\ Finished
    /\ last.steps =
          <<"load", "context", "generate", "log", "update", "reply", "apology">>
    /\ ra.level = IMMINENT
    /\ ~PromptSent
    /\ last.sent = <<[text |-> technical_issue_response, buttons |-> FALSE]>>
    /\ Len(sessions) = 1
    /\ Len(alerts) = 1
    /\ teens[call.user].risk_level = IMMINENT

(***************************************************************************)
(* CheckInSpec: the daily job on every content of the users table.         *)
(***************************************************************************)
\* every users table over the two users: a user has no row, or a row with
\* any stored level
AllTeenTables ==
    LET Rows == [total_conversations : {0, 1},
                 risk_level : {LOW, MODERATE, HIGH, IMMINENT}]
        Pick(d) == [d -> Rows]
    IN  UNION {Pick(d) : d \in SUBSET Users}

CheckInInit ==
    /\ teens \in AllTeenTables
    /\ conv = NoConversations
    /\ last = NoOutcome
    /\ text = ""
    /\ ra = initial_assessment
    /\ pc = "idle"
    /\ enabled = FALSE
    /\ sessions = <<>>
    /\ alerts = <<>>
    /\ handled = 0
    /\ call = NoCall
    /\ inflight = {}

CheckInNext == DailyRiskCheck

CheckInSpec == CheckInInit /\ [][CheckInNext]_vars

\* the number of check-ins the last run sent to user u
CheckInsTo(u) ==
    Cardinality({i \in DOMAIN last.out.sent : last.out.sent[i].to = u})

\* C36 as stated: after a run of the job, the users to whom one check-in was
\* sent or whose send failed are exactly the users stored as HIGH or MODERATE.
C36_ExactlyHighAndModerate ==
    last.event = "check_in" =>
        \A u \in Users :
            (CheckInsTo(u) = 1 \/ u \in last.out.failed)
                <=> StoredRisk(teens, u) \in {HIGH, MODERATE}

\* C36, amended: when the query of the users table succeeds, the job sends one
\* check-in to each user stored as HIGH or MODERATE whose send does not fail
\* and none to anyone else (users stored as IMMINENT or LOW and users without
\* a row get none), whatever sends to other users fail; when the query raises
\* it sends nothing; in every case it changes no stored state.
C36_CheckInTargets ==
    /\ [](last.event = "check_in" =>
            \A u \in Users :
                CheckInsTo(u) =
                    IF /\ ~last.out.query_failed
                       /\ StoredRisk(teens, u) \in {HIGH, MODERATE}
                       /\ u \notin last.out.failed
                    THEN 1 ELSE 0)
    /\ [][last'.event = "check_in" =>
            /\ teens' = teens
            /\ sessions' = sessions
            /\ alerts' = alerts
            /\ conv' = conv]_vars

\* the send to the first selected user failed and the second still got the
\* check-in
C36_Witness ==
    /\ last.event = "check_in"
    /\ DOMAIN teens = {1, 2}
    /\ teens[1].risk_level = MODERATE
    /\ teens[2].risk_level = HIGH
    /\ last.out.failed = {1}
    /\ CheckInsTo(1) = 0
    /\ CheckInsTo(2) = 1

(***************************************************************************)
(* RunSpec: run().  handled is the loop variable attempt, text the message *)
(* of the exception run_polling raised last, last the calls made so far:   *)
(* the number of run_polling calls, the errors they raised, the delays     *)
(* slept between them and the rounds of the keep-alive loop.               *)
(***************************************************************************)
max_retries == 5
base_delay == 10

\* what str(e) can be when run_polling raises
PollingErrors ==
    {"Timeout while connecting", "Connection refused", "Timed out",
     "Unauthorized", "httpx.ConnectTimeout"}

\* a retry after every error that is not the last attempt's
retried_any_error(attempt, e) == attempt < max_retries - 1

\* the retry test of the except branch, on error_msg = str(e).lower()
retried(attempt, e) ==
    LET error_msg == Lower(e) IN
    /\ attempt < max_retries - 1
    /\ In("timeout", error_msg) \/ In("connection", error_msg)

NoRun ==
    [event |-> "run", attempts |-> 0, errors |-> <<>>, delays |-> <<>>,
     keep_alive |-> 0]

RunInit ==
    /\ pc = "start"
    /\ handled = 0
    /\ text = ""
    /\ last = NoRun
    /\ ra = initial_assessment
    /\ enabled = FALSE
    /\ teens = <<>>
    /\ sessions = <<>>
    /\ alerts = <<>>
    /\ call = NoCall
    /\ conv = NoConversations
    /\ inflight = {}

\* the port is read and the health server started; int() of a malformed PORT
\* raises into the outer except branch
RunStart ==
    /\ pc = "start"
    /\ \E port_ok \in BOOLEAN : pc' = IF port_ok THEN "attempt" ELSE "keep_alive"
    /\ UNCHANGED <<text, ra, enabled, teens, sessions, alerts, last, handled, call,
                   conv, inflight>>

\* one pass of the for loop: run_polling returns (break) or raises
RunPolling ==
    /\ pc = "attempt"
    /\ handled < max_retries
    /\ \/ /\ pc' = "returned"
          /\ last' = [last EXCEPT !.attempts = @ + 1]
          /\ UNCHANGED text
       \/ \E e \in PollingErrors :
             /\ text' = e
             /\ last' = [last EXCEPT !.attempts = @ + 1,
                                     !.errors = Append(@, e)]
             /\ pc' = IF retried(handled, e) THEN "sleep" ELSE "keep_alive"
    /\ UNCHANGED <<ra, enabled, teens, sessions, alerts, handled, call, conv,
                   inflight>>

\* time.sleep(delay); continue
RunSleep ==
    /\ pc = "sleep"
    /\ last' = [last EXCEPT !.delays = Append(@, base_delay * (handled + 1))]
    /\ handled' = handled + 1
    /\ pc' = IF handled + 1 < max_retries THEN "attempt" ELSE "returned"
    /\ UNCHANGED <<text, ra, enabled, teens, sessions, alerts, call, conv, inflight>>

\* while True: time.sleep(300)
RunKeepAlive ==
    /\ pc = "keep_alive"
    /\ last.keep_alive < MaxKeepAlive
    /\ last' = [last EXCEPT !.keep_alive = @ + 1]
    /\ UNCHANGED <<text, ra, pc, enabled, teens, sessions, alerts, handled, call,
                   conv, inflight>>

RunNext == RunStart \/ RunPolling \/ RunSleep \/ RunKeepAlive

RunSpec == RunInit /\ [][RunNext]_vars

\* C37: run_polling is started at most 5 times; a failed attempt is followed
\* by another one only when it is not the fifth and the error text holds
\* "timeout" or "connection" in any case of letters, after a sleep of 10 times
\* the attempt's number; any other failure puts run() into the keep-alive
\* loop, which it never leaves: it neither returns nor raises.
C37_BoundedRetries ==
    /\ [](/\ last.attempts <= 5
          /\ Len(last.delays) <= 4
          /\ \A i \in DOMAIN last.delays : last.delays[i] = 10 * i
          /\ pc = "attempt" => last.attempts = Len(last.delays)
          /\ last.keep_alive > 0 => pc = "keep_alive")
    /\ [][/\ (pc = "attempt" /\ pc' = "sleep") =>
                /\ last'.attempts < 5
                /\ \E w \in {"timeout", "connection"} : In(w, Lower(text'))
          /\ (pc = "attempt" /\ pc' = "keep_alive") =>
                \/ last'.attempts = 5
                \/ \A w \in {"timeout", "connection"} : ~In(w, Lower(text'))
          /\ pc = "sleep" => pc' = "attempt" /\ Len(last'.delays) = last.attempts
          /\ pc = "keep_alive" => pc' = "keep_alive"
          /\ pc' = "returned" => pc = "attempt"]_vars

\* four retries with delays of 10 to 40 seconds, the fifth attempt failed
\* with a connection error and run() is in the keep-alive loop
C37_Witness ==
    /\ pc = "keep_alive"
    /\ last.attempts = 5
    /\ last.delays = <<10, 20, 30, 40>>
    /\ text = "Connection refused"
    /\ last.keep_alive = MaxKeepAlive

(***************************************************************************)
(* LogSpec: log_clinical_interaction statement by statement.  The session  *)
(* object collects the writes (call.pending); the tables change when the   *)
(* commit succeeds.  call.fail_at is the statement that raises, if any;    *)
(* last.before is the database the call started with.                      *)
(***************************************************************************)
LogSites == {"session", "alert", "count", "commit"}

\* a session in autocommit mode: every write is in the tables at once
visible_after_autocommit(site, db, pending) == pending

\* the tables after the statement at site succeeded: writes reach them with
\* session.commit() only
visible_after(site, db, pending) == IF site = "commit" THEN pending ELSE db

Database == [teens |-> teens, sessions |-> sessions, alerts |-> alerts]

LogInit ==
    /\ text \in Messages
    /\ ra = assess_risk(text)
    /\ teens \in AllTeenTables
    /\ sessions = <<>>
    /\ alerts = <<>>
    /\ \E f \in LogSites \cup {"none"} :
          call = [user |-> 1, fail_at |-> f, pending |-> Database]
    /\ last = [event |-> "log", before |-> Database, failed |-> FALSE]
    /\ pc = "session"
    /\ enabled = FALSE
    /\ handled = 0
    /\ conv = NoConversations
    /\ inflight = {}

\* the statement at site: it raises (except branch: rollback, return), or the
\* session takes the write and the next statement follows
LogStatement(site, made, pending, next) ==
    /\ pc = site
    /\ IF made /\ call.fail_at = site
       THEN /\ pc' = "returned"
            /\ call' = [call EXCEPT !.pending = Database]
            /\ last' = [last EXCEPT !.failed = TRUE]
            /\ UNCHANGED <<teens, sessions, alerts>>
       ELSE LET db == visible_after(site, Database, pending) IN
            /\ pc' = next
            /\ call' = [call EXCEPT !.pending = pending]
            /\ teens' = db.teens
            /\ sessions' = db.sessions
            /\ alerts' = db.alerts
            /\ UNCHANGED last
    /\ UNCHANGED <<text, ra, enabled, handled, conv, inflight>>

\* session.add(therapeutic_session)
LogAddSession ==
    LogStatement("session", TRUE,
        [call.pending EXCEPT
            !.sessions = Append(@, [user_id |-> call.user, level |-> ra.level])],
        "alert")

\* session.add(crisis_alert), for a HIGH or IMMINENT level only
LogAddAlert ==
    LogStatement("alert", ra.level \in {HIGH, IMMINENT},
        IF ra.level \in {HIGH, IMMINENT}
        THEN [call.pending EXCEPT
                 !.alerts = Append(@, [user_id |-> call.user,
                                       crisis_type |-> ra.crisis_type,
                                       risk_level |-> ra.level])]
        ELSE call.pending,
        "count")

\* the user's row is read and its conversation count incremented
LogCountConversation ==
    LogStatement("count", TRUE,
        IF call.user \in DOMAIN call.pending.teens
        THEN [call.pending EXCEPT !.teens[call.user].total_conversations = @ + 1]
        ELSE call.pending,
        "commit")

\* session.commit()
LogCommit == LogStatement("commit", TRUE, call.pending, "returned")

LogNext == LogAddSession \/ LogAddAlert \/ LogCountConversation \/ LogCommit

LogSpec == LogInit /\ [][LogNext]_vars

\* C38: log_clinical_interaction writes the session row, the alert row (for
\* HIGH and IMMINENT) and the incremented counter in one transaction: until
\* it returns the tables are as before, and when it has returned either all
\* of the writes are in the tables or, after a failure of any statement,
\* none is; a failure ends in a plain return, never in an exception.
C38_AllOrNothing ==
    LET b == last.before
        u == call.user
    IN  /\ pc # "returned" => Database = b /\ ~last.failed
        /\ last.failed => pc = "returned"
        /\ (pc = "returned" /\ last.failed) => Database = b
        /\ (pc = "returned" /\ ~last.failed) =>
              /\ sessions = Append(b.sessions, [user_id |-> u, level |-> ra.level])
              /\ alerts = IF ra.level \in {HIGH, IMMINENT}
                          THEN Append(b.alerts, [user_id |-> u,
                                                 crisis_type |-> ra.crisis_type,
                                                 risk_level |-> ra.level])
                          ELSE b.alerts
              /\ DOMAIN teens = DOMAIN b.teens
              /\ \A v \in DOMAIN teens :
                    /\ teens[v].risk_level = b.teens[v].risk_level
                    /\ teens[v].total_conversations =
                          b.teens[v].total_conversations + (IF v = u THEN 1 ELSE 0)
        /\ pc = "returned" =>
              Database = log_clinical_interaction(b, u, ra, last.failed)

\* the counter update of an IMMINENT message failed after the session and the
\* alert had been added: none of the three is stored
C38_Witness ==
    /\ pc = "returned"
    /\ last.failed
    /\ call.fail_at = "count"
    /\ ra.level = IMMINENT
    /\ 1 \in DOMAIN teens
    /\ sessions = <<>>
    /\ alerts = <<>>
    /\ teens = last.before.teens

====
